---- MODULE Spec2Model ----
(***************************************************************************)
(* Turn-processing graph of the memory chat service                        *)
(* (3. Platform/backend/app): triage chain, reasoning loop with tools,     *)
(* quality gate with single-pass refinement, memory update and session     *)
(* store.  Every node of the graph is an operator from the turn record to  *)
(* a partial update; an action runs one node, merges its update with the   *)
(* graph's reducers and follows the outgoing edge.                         *)
(*                                                                         *)
(* Abstractions: texts are short symbolic strings (IsBlank models          *)
(* str.strip() being empty); uuid4 values are fresh naturals; scores are   *)
(* hundredths (0.85 is 85); a user message is a sequence of word tokens.   *)
(***************************************************************************)
EXTENDS Integers, Sequences, FiniteSets, TLC

VARIABLES
    pc,                \* pc[t]: node the turn in slot t executes next
    state,             \* state[t]: the ChatState of the turn in slot t
    store,             \* persisted sessions: session id -> SessionMemory
    nextId,            \* source of fresh uuid4 values
    budget,            \* turns that may still be started
    state_ref,         \* _state_ref of build_chat_graph (shared by turns)
    captured_sources,  \* _captured_sources of build_chat_graph (shared)
    frame,             \* frame[t]: locals of a running execute_tools
    obs,               \* obs[t]: nodes executed in the turn, with outcomes
    probe              \* a service function applied outside a turn: its
                       \* inputs and what it returned

vars == <<pc, state, store, nextId, budget, state_ref, captured_sources,
          frame, obs, probe>>

-----------------------------------------------------------------------------
(* Bounds *)

MaxMemTurns == 6
MaxTrace == 30
MaxConcRounds == 1
MaxFollowTurns == 2
MaxIndexTurns == 11
MaxReloads == 3
MaxAnswerTurns == 2
MaxCountTurns == 3
MaxDeleteTurns == 2

Slots == {1, 2}

-----------------------------------------------------------------------------
(* Values *)

None == "<None>"
Empty == << >>

\* result of an external call: a value, or an exception
Ok(v) == [ok |-> TRUE, value |-> v]
Throw == [ok |-> FALSE, value |-> None]

IsBlank(text) == text \in {"", " "}

Get(r, k, d) == IF k \in DOMAIN r THEN r[k] ELSE d
Put(r, k, v) == [x \in DOMAIN r \cup {k} |-> IF x = k THEN v ELSE r[x]]
Drop(r, k) == [x \in DOMAIN r \ {k} |-> r[x]]
Range(s) == {s[i] : i \in DOMAIN s}
Last(s) == s[Len(s)]

RECURSIVE Tail10(_)
Tail10(s) == IF Len(s) <= 10 THEN s ELSE Tail10(Tail(s))

RECURSIVE Count(_, _)
Count(s, x) == IF s = << >> THEN 0
               ELSE (IF Head(s) = x THEN 1 ELSE 0) + Count(Tail(s), x)

MAX_TOOL_ROUNDS == 3

FALLBACK_TEXT == "Ik kon geen antwoord genereren"
MCP_NOT_CONFIGURED_MSG == "De MCP-service is momenteel niet geconfigureerd"
MCP_UNREACHABLE_MSG == "Sorry, de MCP-service is momenteel niet bereikbaar."
MCP_HTTP_ERROR_MSG == "Sorry, de MCP-service gaf een fout"
GATHER_UNKNOWN_MSG == "Welke toeslag wil je checken?"
ANSWER_GIVEN == "[Antwoord gegeven]"

-----------------------------------------------------------------------------
(* Session memory and the session store *)

SessionMemoryFields ==
    {"session_id", "summary", "qa_index", "full_answers",
     "recent_messages", "message_count"}

NewSessionMemory(sid) ==
    [session_id |-> sid, summary |-> "", qa_index |-> << >>,
     full_answers |-> << >>, recent_messages |-> << >>,
     message_count |-> 0]

\* a SessionMemory that forgets the summary it is given
SessionMemory_default_summary(data) ==
    [k \in SessionMemoryFields |-> IF k = "summary" THEN "" ELSE data[k]]

\* SessionMemory(**data): pydantic keeps the declared fields only
SessionMemory(data) == [k \in SessionMemoryFields |-> data[k]]

\* the file of a session: os.path.basename drops any directory part of the
\* id.  Ids from 100 on stand for ids with a directory part: 101 is "x/1".
_path(session_id) == session_id % 100

\* st maps the path of every session file to the dumped session
SessionStore_exists(st, sid) == _path(sid) \in DOMAIN st
\* a session file that json.load or SessionMemory(**data) rejects
Corrupt == [garbage |-> TRUE]

\* whether load returns a session: the file is there and it parses
SessionStore_loads(st, sid) ==
    _path(sid) \in DOMAIN st /\ "session_id" \in DOMAIN st[_path(sid)]

SessionStore_load(st, sid) ==
    IF SessionStore_loads(st, sid) THEN SessionMemory(st[_path(sid)])
    ELSE None
SessionStore_save(st, session) == Put(st, _path(session.session_id), session)
SessionStore_create(st, sid) == SessionStore_save(st, NewSessionMemory(sid))

\* delete that reports success for a missing file as well
SessionStore_deleted_always(st, sid, removed) == removed

\* what delete returns; removed: whether os.remove succeeded
SessionStore_deleted(st, sid, removed) ==
    IF _path(sid) \notin DOMAIN st THEN FALSE ELSE removed

\* the files after a delete
SessionStore_delete(st, sid, removed) ==
    IF SessionStore_deleted(st, sid, removed) THEN Drop(st, _path(sid))
    ELSE st

-----------------------------------------------------------------------------
(* The turn record and its reducers *)

InitialState(message, session_id, use_memory) ==
    [message |-> message, session_id |-> session_id,
     use_memory |-> use_memory,
     session |-> Empty, messages |-> << >>, retrieved_sources |-> << >>,
     assistant_text |-> "", exchange_id |-> None,
     unique_sources |-> << >>, source_ids |-> << >>, response |-> Empty,
     triage |-> Empty, source_validation |-> Empty,
     tone_validation |-> Empty, output_guardrail |-> Empty,
     answer_evaluation |-> Empty, answer_evaluation_before |-> Empty,
     refine_decision |-> Empty, refined_once |-> FALSE, tool_rounds |-> 0]

IdleState == InitialState(<< >>, 0, TRUE)

\* a merge in which retrieved_sources has no reducer and is overwritten
Merge_sources_overwritten(s, u) ==
    [k \in DOMAIN s |->
        IF k \in DOMAIN u
        THEN IF k \in {"messages"}
             THEN s[k] \o u[k]
             ELSE u[k]
        ELSE s[k]]

\* keys outside the ChatState schema are not channels and are dropped;
\* messages and retrieved_sources accumulate, every other key overwrites
Merge(s, u) ==
    [k \in DOMAIN s |->
        IF k \in DOMAIN u
        THEN IF k \in {"messages", "retrieved_sources"}
             THEN s[k] \o u[k]
             ELSE u[k]
        ELSE s[k]]

-----------------------------------------------------------------------------
(* Triage chain *)

_default_triage ==
    [route |-> "llm", skip_llm |-> FALSE, early_response |-> None,
     triage_log |-> << >>]

TriageOf(s) == IF DOMAIN s.triage = {} THEN _default_triage ELSE s.triage

_triage_already_decided(s) ==
    IF DOMAIN s.triage = {} THEN FALSE ELSE Get(s.triage, "skip_llm", FALSE)

Log(triage, line) ==
    Put(triage, "triage_log", Append(triage.triage_log, line))

\* the ENABLED toggles of the pluggable steps
GUARDRAIL_INPUT_ENABLED == TRUE
TRIAGE_RELEVANCE_ENABLED == TRUE
VALIDATE_SOURCES_ENABLED == TRUE
VALIDATE_TONE_ENABLED == FALSE

guardrail_input(s) ==
    IF ~GUARDRAIL_INPUT_ENABLED THEN Empty
    ELSE [triage |-> Log(TriageOf(s), "guardrail_input: PASS")]

guardrail_input_with_init(s) ==
    IF DOMAIN s.triage = {}
    THEN LET result == guardrail_input(Put(s, "triage", _default_triage)) IN
         IF "triage" \notin DOMAIN result
         THEN Put(result, "triage", _default_triage)
         ELSE result
    ELSE guardrail_input(s)

triage_relevance(s) ==
    IF ~TRIAGE_RELEVANCE_ENABLED THEN Empty
    ELSE IF _triage_already_decided(s) THEN Empty
    ELSE [triage |-> Log(TriageOf(s), "triage_relevance: PASS")]

(* FAQ service: get_best_match over the candidates match(query, 1) returns *)
HIGH_CONFIDENCE_THRESHOLD == 85
SUGGEST_THRESHOLD == 70

\* get_best_match with strict comparisons
get_best_match_strict(matches) ==
    IF matches = << >> THEN <<None, "none">>
    ELSE LET best_match == matches[1] IN
         IF best_match.score > HIGH_CONFIDENCE_THRESHOLD
         THEN <<best_match, "exact">>
         ELSE IF best_match.score > SUGGEST_THRESHOLD
              THEN <<best_match, "suggest">>
              ELSE <<best_match, "none">>

get_best_match(matches) ==
    IF matches = << >> THEN <<None, "none">>
    ELSE LET best_match == matches[1] IN
         IF best_match.score >= HIGH_CONFIDENCE_THRESHOLD
         THEN <<best_match, "exact">>
         ELSE IF best_match.score >= SUGGEST_THRESHOLD
              THEN <<best_match, "suggest">>
              ELSE <<best_match, "none">>

FaqSource == [title |-> "faq source", document_id |-> ""]
FaqMatch(score) ==
    [faq_id |-> "FAQ-003", answer |-> "faq answer", score |-> score,
     sources |-> <<FaqSource>>]

\* candidates the index can return for a message
FaqCandidates == {<< >>, <<FaqMatch(60)>>, <<FaqMatch(75)>>, <<FaqMatch(90)>>}

\* a triage_faq that answers with the candidate also on "suggest"
triage_faq_answers_suggestion(s, faq_service, matches) ==
    IF _triage_already_decided(s) THEN Empty
    ELSE LET triage == TriageOf(s) IN
         IF ~faq_service
         THEN [triage |-> Log(triage, "triage_faq: NO SERVICE")]
         ELSE LET best == get_best_match(matches)
                  match == best[1]
                  decision == best[2] IN
              IF decision \in {"exact", "suggest"}
              THEN [triage |->
                     Log(Put(Put(Put(Put(Put(triage,
                         "route", "faq"),
                         "skip_llm", TRUE),
                         "early_response", match.answer),
                         "faq_match", [faq_id |-> match.faq_id,
                                       score |-> match.score]),
                         "faq_sources", match.sources),
                         "triage_faq: EXACT")]
              ELSE [triage |-> Log(triage, "triage_faq: NO MATCH")]

\* faq_service: whether the node was built with a FAQ service
triage_faq(s, faq_service, matches) ==
    IF _triage_already_decided(s) THEN Empty
    ELSE LET triage == TriageOf(s) IN
         IF ~faq_service
         THEN [triage |-> Log(triage, "triage_faq: NO SERVICE")]
         ELSE LET best == get_best_match(matches)
                  match == best[1]
                  decision == best[2] IN
              IF decision = "exact"
              THEN [triage |->
                     Log(Put(Put(Put(Put(Put(triage,
                         "route", "faq"),
                         "skip_llm", TRUE),
                         "early_response", match.answer),
                         "faq_match", [faq_id |-> match.faq_id,
                                       score |-> match.score]),
                         "faq_sources", match.sources),
                         "triage_faq: EXACT")]
              ELSE IF decision = "suggest"
              THEN [triage |->
                     Log(Put(triage, "faq_suggestion",
                             [faq_id |-> match.faq_id,
                              answer |-> match.answer,
                              score |-> match.score]),
                         "triage_faq: SUGGEST")]
              ELSE [triage |-> Log(triage, "triage_faq: NO MATCH")]

triage_intent(s) ==
    IF _triage_already_decided(s) THEN Empty
    ELSE [triage |-> Log(Put(TriageOf(s), "route", "llm"),
                         "triage_intent: ROUTE -> llm")]

(* MCP detection.  A message is a sequence of word tokens; Sub(kw, w)     *)
(* says that the keyword occurs inside the word (substring search).       *)
MCP_PREFIX == "mcp:"
Numbers == {"30000", "700"}

Sub(kw, w) == kw = w \/ <<kw, w>> \in {<<"huur", "huurtoeslag">>}
Mentions(query, kw) == \E i \in DOMAIN query : Sub(kw, query[i])

MCP_LAW_PARAMS ==
    [zorgtoeslag |-> [required |-> {"inkomen"},
                      question |-> "vraag zorgtoeslag"],
     huurtoeslag |-> [required |-> {"inkomen", "huur"},
                      question |-> "vraag huurtoeslag"],
     aow |-> [required |-> {"leeftijd"}, question |-> "vraag aow"],
     bijstand |-> [required |-> {"inkomen", "vermogen"},
                   question |-> "vraag bijstand"]]

_detect_law_type(query) ==
    IF Mentions(query, "zorgtoeslag") THEN "zorgtoeslag"
    ELSE IF Mentions(query, "huurtoeslag") THEN "huurtoeslag"
    ELSE IF Mentions(query, "aow") \/ Mentions(query, "ouderdom") THEN "aow"
    ELSE IF Mentions(query, "bijstand") THEN "bijstand"
    ELSE None

\* regex kw[^\d]*(\d+): the first number after an occurrence of kw
FirstNumberAfter(query, kws) ==
    LET hits == {j \in DOMAIN query : query[j] \in Numbers /\
                   \E i \in 1..(j - 1) :
                      /\ \E kw \in kws : Sub(kw, query[i])
                      /\ \A m \in (i + 1)..(j - 1) : query[m] \notin Numbers}
    IN IF hits = {} THEN None
       ELSE query[CHOOSE j \in hits : \A h \in hits : j <= h]

_extract_params_from_query(query) ==
    LET inkomen == FirstNumberAfter(query, {"inkomen", "verdien"})
        huur == FirstNumberAfter(query, {"huur"})
        leeftijd == FirstNumberAfter(query, {"leeftijd", "ben"})
        vermogen == FirstNumberAfter(query, {"vermogen", "spaargeld", "spaar"})
        found == {<<"inkomen", inkomen>>, <<"huur", huur>>,
                  <<"leeftijd", leeftijd>>, <<"vermogen", vermogen>>}
        keys == {p[1] : p \in {q \in found : q[2] # None}}
    IN [k \in keys |-> (CHOOSE p \in found : p[1] = k)[2]]

_has_required_params(law_type, params) ==
    IF law_type \notin DOMAIN MCP_LAW_PARAMS THEN TRUE
    ELSE \A param \in MCP_LAW_PARAMS[law_type].required :
            param \in DOMAIN params

StartsWithPrefix(message) ==
    message # << >> /\ message[1] = MCP_PREFIX

\* detection that routes to the engine without looking at the parameters
TriageMcpDetected_unchecked(triage, query, mcp_query) ==
    LET law_type == _detect_law_type(query)
        params == _extract_params_from_query(query)
        t1 == Put(Put(Put(triage, "route", "mcp"),
                  "skip_llm", TRUE), "mcp_query", mcp_query) IN
    [triage |->
       IF law_type # None
       THEN Put(Put(t1, "mcp_law_type", law_type), "mcp_params", params)
       ELSE t1]

\* classification: the classifier's answer, "JA", "NEE" or "throw"
TriageMcpDetected(triage, query, mcp_query) ==
    LET law_type == _detect_law_type(query)
        params == _extract_params_from_query(query) IN
    IF law_type # None /\ ~_has_required_params(law_type, params)
    THEN [triage |->
           Put(Put(Put(Put(triage, "route", "mcp_gather_params"),
               "skip_llm", TRUE), "mcp_law_type", law_type),
               "mcp_params", params)]
    ELSE LET t1 == Put(Put(Put(triage, "route", "mcp"),
                       "skip_llm", TRUE), "mcp_query", mcp_query) IN
         [triage |->
           IF law_type # None
           THEN Put(Put(t1, "mcp_law_type", law_type), "mcp_params", params)
           ELSE t1]

triage_mcp(s, classification) ==
    LET triage == s.triage
        pending_mcp == Get(s.session, "pending_mcp_intent", Empty) IN
    IF DOMAIN pending_mcp # {}
    THEN LET law_type == pending_mcp.law_type
             new_params == _extract_params_from_query(s.message)
             merged_params ==
                 [k \in DOMAIN pending_mcp.params \cup DOMAIN new_params |->
                     IF k \in DOMAIN new_params THEN new_params[k]
                     ELSE pending_mcp.params[k]] IN
         IF _has_required_params(law_type, merged_params)
         THEN [triage |->
                Put(Put(Put(Put(Put(Put(triage, "route", "mcp"),
                    "skip_llm", TRUE), "mcp_query", law_type),
                    "mcp_params", merged_params), "mcp_law_type", law_type),
                    "clear_pending_mcp", TRUE)]
         ELSE [triage |->
                Put(Put(Put(Put(triage, "route", "mcp_gather_params"),
                    "skip_llm", TRUE), "mcp_law_type", law_type),
                    "mcp_params", merged_params)]
    ELSE IF StartsWithPrefix(s.message)
    THEN TriageMcpDetected(triage, Tail(s.message), Tail(s.message))
    ELSE IF classification = "JA"
    THEN TriageMcpDetected(triage, s.message, s.message)
    ELSE Empty

\* the routing function without the MCP routes
should_call_llm_two_way(s) ==
    IF Get(s.triage, "skip_llm", FALSE)
    THEN "bundle_triage_response"
    ELSE "build_prompt"

should_call_llm(s) ==
    IF Get(s.triage, "skip_llm", FALSE)
    THEN LET route == Get(s.triage, "route", "") IN
         IF route = "mcp" THEN "call_mcp"
         ELSE IF route = "mcp_gather_params" THEN "gather_mcp_params"
         ELSE "bundle_triage_response"
    ELSE "build_prompt"

-----------------------------------------------------------------------------
(* Reasoning loop *)

SystemMessage(content) ==
    [type |-> "system", content |-> content, tool_calls |-> << >>,
     tool_call_id |-> None]
HumanMessage(content) ==
    [type |-> "human", content |-> content, tool_calls |-> << >>,
     tool_call_id |-> None]
AIMessage(content, tool_calls) ==
    [type |-> "ai", content |-> content, tool_calls |-> tool_calls,
     tool_call_id |-> None]
ToolMessage(content, tool_call_id) ==
    [type |-> "tool", content |-> content, tool_calls |-> << >>,
     tool_call_id |-> tool_call_id]

RECURSIVE RecentAsMessages(_)
RecentAsMessages(recent) ==
    IF recent = << >> THEN << >>
    ELSE LET msg == Head(recent) IN
         (IF msg.role = "user" /\ msg.content # << >>
          THEN <<HumanMessage(msg.content), AIMessage(ANSWER_GIVEN, << >>)>>
          ELSE << >>) \o RecentAsMessages(Tail(recent))

\* build_prompt that sends the system prompt and the current message only
build_prompt_without_history(s) ==
    LET session == s.session
        system_content ==
            IF s.use_memory
            THEN [summary |-> session.summary,
                  qa_index |-> [i \in DOMAIN Tail10(session.qa_index) |->
                                  Tail10(session.qa_index)[i].exchange_id]]
            ELSE [summary |-> "", qa_index |-> << >>]
    IN [messages |-> <<SystemMessage(system_content),
                       HumanMessage(s.message)>>,
        retrieved_sources |-> << >>,
        tool_rounds |-> 0]

build_prompt(s) ==
    LET session == s.session
        system_content ==
            IF s.use_memory
            THEN [summary |-> session.summary,
                  qa_index |-> [i \in DOMAIN Tail10(session.qa_index) |->
                                  Tail10(session.qa_index)[i].exchange_id]]
            ELSE [summary |-> "", qa_index |-> << >>]
        history == IF s.use_memory
                   THEN RecentAsMessages(Tail10(session.recent_messages))
                   ELSE << >>
    IN [messages |-> <<SystemMessage(system_content)>> \o history
                       \o <<HumanMessage(s.message)>>,
        retrieved_sources |-> << >>,
        tool_rounds |-> 0]

\* call_llm that forgets to count the round
call_llm_uncounted(s, response) ==
    [messages |-> <<response>>, tool_rounds |-> s.tool_rounds]

call_llm(s, response) ==
    [messages |-> <<response>>, tool_rounds |-> s.tool_rounds + 1]

should_continue(s) ==
    LET last_msg == Last(s.messages) IN
    IF last_msg.type = "ai" /\ last_msg.tool_calls # << >>
         /\ s.tool_rounds < MAX_TOOL_ROUNDS
    THEN "execute_tools"
    ELSE "bundle_sources"

(* Tools.  A tool call is [name, args, id]; invoking it yields the result *)
(* text, the sources it appends to the shared accumulator and, for the    *)
(* tools that read session memory, the id of the session it read.         *)
Source(title, document_id) == [title |-> title, document_id |-> document_id]

Doc1 == Source("doc one", "d1")
Doc1b == Source("doc one, other chunk", "d1")
Doc2 == Source("doc two", "d2")
DocNoId == Source("untitled", "")

SearchResults == {<< >>, <<Doc1>>, <<Doc1, Doc2>>, <<Doc1b, DocNoId>>}

ToolResult(result, captured, read) ==
    [result |-> result, captured |-> captured, read |-> read]

search_knowledge_base(results) ==
    IF results = << >>
    THEN ToolResult("No relevant documents found.", << >>, {})
    ELSE ToolResult("search results", results, {})

\* the session a tool read through session_getter(), as a set of ids
SessionIdOf(session) ==
    IF "session_id" \in DOMAIN session THEN {session.session_id} ELSE {}

retrieve_past_answer(session, exchange_id) ==
    LET full_answers == Get(session, "full_answers", << >>) IN
    IF exchange_id \notin DOMAIN full_answers
    THEN ToolResult("No answer found", << >>, SessionIdOf(session))
    ELSE LET entry == full_answers[exchange_id] IN
         ToolResult(entry.text, entry.sources, SessionIdOf(session))

RECURSIVE LookupCaptured(_, _, _)
LookupCaptured(qa_index, full_answers, topic) ==
    IF qa_index = << >> THEN << >>
    ELSE LET entry == Head(qa_index)
             hit == topic \in Range(entry.topics)
                      \cup {entry.answer_summary}
             srcs == IF hit /\ entry.exchange_id \in DOMAIN full_answers
                     THEN full_answers[entry.exchange_id].sources
                     ELSE << >>
         IN srcs \o LookupCaptured(Tail(qa_index), full_answers, topic)

lookup_past_conversation(session, topic) ==
    LET qa_index == Get(session, "qa_index", << >>)
        full_answers == Get(session, "full_answers", << >>)
        matches == {i \in DOMAIN qa_index :
                       topic \in Range(qa_index[i].topics)
                          \cup {qa_index[i].answer_summary}} IN
    ToolResult(IF matches = {} THEN "No past exchanges found"
               ELSE "past exchanges",
               LookupCaptured(qa_index, full_answers, topic),
               SessionIdOf(session))

\* tool_map.get(name) and t.invoke(args) of execute_tools; outcome is what
\* the retrieval service does (a result list, or an exception)
InvokeTool(tc, session, outcome) ==
    IF tc.name = "search_knowledge_base"
    THEN IF ~outcome.ok
         THEN ToolResult("Error executing search_knowledge_base", << >>, {})
         ELSE search_knowledge_base(outcome.value)
    ELSE IF tc.name = "retrieve_past_answer"
    THEN retrieve_past_answer(session, tc.args)
    ELSE IF tc.name = "lookup_past_conversation"
    THEN lookup_past_conversation(session, tc.args)
    ELSE ToolResult("Unknown tool", << >>, {})

ToolOutcomes(tc, Results) ==
    IF tc.name = "search_knowledge_base"
    THEN {Ok(r) : r \in Results} \cup {Throw}
    ELSE {Ok(<< >>)}

RECURSIVE LastAnswerText(_)
LastAnswerText(messages) ==
    IF messages = << >> THEN ""
    ELSE LET msg == Last(messages) IN
         IF msg.type = "ai" /\ ~IsBlank(msg.content) THEN msg.content
         ELSE LastAnswerText(SubSeq(messages, 1, Len(messages) - 1))

\* a deduplication that also drops the sources without a document id
RECURSIVE Dedup_identified_only(_, _)
Dedup_identified_only(sources, seen_doc_ids) ==
    IF sources = << >> THEN << >>
    ELSE LET src == Head(sources)
             doc_id == src.document_id IN
         IF doc_id = "" \/ doc_id \in seen_doc_ids
         THEN Dedup_identified_only(Tail(sources), seen_doc_ids)
         ELSE <<src>> \o Dedup_identified_only(Tail(sources),
                                               seen_doc_ids \cup {doc_id})

RECURSIVE Dedup(_, _)
Dedup(sources, seen_doc_ids) ==
    IF sources = << >> THEN << >>
    ELSE LET src == Head(sources)
             doc_id == src.document_id IN
         IF doc_id # "" /\ doc_id \in seen_doc_ids
         THEN Dedup(Tail(sources), seen_doc_ids)
         ELSE <<src>> \o Dedup(Tail(sources),
                               IF doc_id # "" THEN seen_doc_ids \cup {doc_id}
                               ELSE seen_doc_ids)

RECURSIVE DocIds(_)
DocIds(sources) ==
    IF sources = << >> THEN << >>
    ELSE (IF Head(sources).document_id # ""
          THEN <<Head(sources).document_id>> ELSE << >>)
         \o DocIds(Tail(sources))

bundle_sources(s, exchange_id) ==
    LET found == LastAnswerText(s.messages)
        assistant_text == IF found = "" THEN FALLBACK_TEXT ELSE found
        unique_sources == Dedup(s.retrieved_sources, {}) IN
    [assistant_text |-> assistant_text,
     exchange_id |-> exchange_id,
     unique_sources |-> unique_sources,
     source_ids |-> DocIds(unique_sources)]

\* f"faq-src-{i}" for i = 0, 1, 2
FaqSrcId == <<"faq-src-0", "faq-src-1", "faq-src-2">>

_bundle_triage_response(s, exchange_id) ==
    LET triage == s.triage
        faq_sources == Get(triage, "faq_sources", << >>)
        unique_sources ==
            [i \in DOMAIN faq_sources |->
                Source(faq_sources[i].title, FaqSrcId[i])] IN
    [assistant_text |-> Get(triage, "early_response", ""),
     exchange_id |-> exchange_id,
     unique_sources |-> unique_sources,
     source_ids |-> [i \in DOMAIN unique_sources |->
                        unique_sources[i].document_id]]

-----------------------------------------------------------------------------
(* MCP nodes *)

gather_mcp_params(s, exchange_id) ==
    LET triage == s.triage
        law_type == Get(triage, "mcp_law_type", None)
        current_params == Get(triage, "mcp_params", << >>) IN
    IF law_type = None \/ law_type \notin DOMAIN MCP_LAW_PARAMS
    THEN [assistant_text |-> GATHER_UNKNOWN_MSG,
          exchange_id |-> exchange_id,
          unique_sources |-> << >>, source_ids |-> << >>]
    ELSE [assistant_text |-> MCP_LAW_PARAMS[law_type].question,
          exchange_id |-> exchange_id,
          unique_sources |-> << >>, source_ids |-> << >>,
          session_update |->
              [pending_mcp_intent |->
                  [law_type |-> law_type, params |-> current_params]]]

\* outcome: "unset" (no MCP_SERVER_URL), "ok", "http_error", "unreachable"
McpOutcomes == {"unset", "ok", "http_error", "unreachable"}

call_mcp(s, exchange_id, outcome) ==
    [assistant_text |->
        IF outcome = "unset" THEN MCP_NOT_CONFIGURED_MSG
        ELSE IF outcome = "ok" THEN "raw mcp result"
        ELSE IF outcome = "http_error" THEN MCP_HTTP_ERROR_MSG
        ELSE MCP_UNREACHABLE_MSG,
     exchange_id |-> exchange_id,
     unique_sources |-> << >>, source_ids |-> << >>]

\* outcome: the text the model returns, or an exception
FormatOutcomes == {Throw, Ok(""), Ok("formatted answer")}

format_mcp(s, outcome) ==
    IF Get(s.triage, "route", None) # "mcp" \/ s.assistant_text = ""
    THEN Empty
    ELSE IF ~outcome.ok THEN Empty
    ELSE [assistant_text |-> outcome.value]

-----------------------------------------------------------------------------
(* Quality pipeline *)

NoScore == 0 - 1

Scores(relevance, groundedness, completeness, tone, policy_compliance) ==
    [relevance |-> relevance, groundedness |-> groundedness,
     completeness |-> completeness, tone |-> tone,
     policy_compliance |-> policy_compliance]

ZeroScores == Scores(0, 0, 0, 0, 0)
GoodScores == Scores(80, 80, 80, 80, 80)
BadScores == Scores(30, 80, 80, 80, 80)

\* outcome: the scores the judge returns, or an exception
EvalOutcomes == {Throw, Ok(GoodScores), Ok(BadScores)}

\* evaluate_answer that scores a failed evaluation as zero
evaluate_answer_zero_on_failure(s, outcome) ==
    IF IsBlank(s.assistant_text)
    THEN [answer_evaluation |-> ZeroScores]
    ELSE IF ~outcome.ok THEN [answer_evaluation |-> ZeroScores]
    ELSE [answer_evaluation |-> outcome.value]

evaluate_answer(s, outcome) ==
    IF IsBlank(s.assistant_text)
    THEN [answer_evaluation |-> ZeroScores]
    ELSE IF ~outcome.ok THEN Empty
    ELSE [answer_evaluation |-> outcome.value]

THRESHOLDS == Scores(60, 60, 50, 60, 60)

_as_float(evaluation, metric) == Get(evaluation, metric, NoScore)

Below(evaluation, metric) ==
    /\ _as_float(evaluation, metric) # NoScore
    /\ _as_float(evaluation, metric) < THRESHOLDS[metric]

\* a decision on the scores alone, deaf to the validators
decide_refine_scores_only(evaluation, source_validation, tone_validation) ==
    LET reasons ==
          SelectSeq(<<"relevance", "groundedness", "completeness", "tone",
                      "policy_compliance">>,
                    LAMBDA metric : Below(evaluation, metric))
    IN [should_refine |-> Len(reasons) > 0, reasons |-> reasons]

decide_refine(evaluation, source_validation, tone_validation) ==
    LET reasons ==
          (IF Below(evaluation, "relevance")
           THEN <<"Low relevance">> ELSE << >>)
          \o (IF Below(evaluation, "groundedness")
              THEN <<"Not grounded">>
              ELSE IF Get(source_validation, "grounded", TRUE) = FALSE
                   THEN <<"Source validation flagged">> ELSE << >>)
          \o (IF Below(evaluation, "completeness")
              THEN <<"Incomplete">> ELSE << >>)
          \o (IF Below(evaluation, "tone")
              THEN <<"Tone">>
              ELSE IF Get(tone_validation, "appropriate", TRUE) = FALSE
                   THEN <<"Tone validation flagged">> ELSE << >>)
          \o (IF Below(evaluation, "policy_compliance")
              THEN <<"Policy">> ELSE << >>)
    IN [should_refine |-> Len(reasons) > 0, reasons |-> reasons]

\* routing on the decision alone
should_refine_from_state_unlatched(s) ==
    IF Get(s.refine_decision, "should_refine", FALSE)
    THEN "refine_answer"
    ELSE "validate_sources"

should_refine_from_state(s) ==
    IF s.refined_once THEN "validate_sources"
    ELSE IF Get(s.refine_decision, "should_refine", FALSE)
         THEN "refine_answer"
         ELSE "validate_sources"

should_route_after_evaluate(s) ==
    IF s.refined_once THEN "validate_sources" ELSE "quality_gate"

quality_gate(s) ==
    IF s.refined_once THEN Empty
    ELSE [refine_decision |->
              decide_refine(s.answer_evaluation, s.source_validation,
                            s.tone_validation),
          answer_evaluation_before |-> s.answer_evaluation]

\* outcome: the text the model returns, or an exception
RefineOutcomes == {Throw, Ok(""), Ok(" "), Ok("refined answer")}

\* whether refine_answer gets as far as calling the model
RefineAttempts(s) ==
    ~s.refined_once /\ Get(s.refine_decision, "should_refine", FALSE)

\* refine_answer whose exception handler returns nothing
refine_answer_silent_failure(s, outcome) ==
    IF s.refined_once THEN Empty
    ELSE IF ~Get(s.refine_decision, "should_refine", FALSE) THEN Empty
    ELSE IF ~outcome.ok THEN Empty
         ELSE IF IsBlank(outcome.value)
              THEN [refined_once |-> TRUE,
                    answer_before |-> s.assistant_text]
              ELSE [assistant_text |-> outcome.value,
                    refined_once |-> TRUE,
                    answer_before |-> s.assistant_text]

\* refine_answer that accepts whatever text the model returns
refine_answer_accepts_blank(s, outcome) ==
    IF s.refined_once THEN Empty
    ELSE IF ~Get(s.refine_decision, "should_refine", FALSE) THEN Empty
    ELSE IF ~outcome.ok
         THEN [refined_once |-> TRUE, answer_before |-> s.assistant_text]
         ELSE [assistant_text |-> outcome.value,
               refined_once |-> TRUE,
               answer_before |-> s.assistant_text]

refine_answer(s, outcome) ==
    IF s.refined_once THEN Empty
    ELSE IF ~Get(s.refine_decision, "should_refine", FALSE) THEN Empty
    ELSE IF ~outcome.ok
         THEN [refined_once |-> TRUE, answer_before |-> s.assistant_text]
         ELSE IF IsBlank(outcome.value)
              THEN [refined_once |-> TRUE,
                    answer_before |-> s.assistant_text]
              ELSE [assistant_text |-> outcome.value,
                    refined_once |-> TRUE,
                    answer_before |-> s.assistant_text]

\* outcome: the validator's verdict (grounded or not), or an exception
SourceOutcomes == {Throw, Ok(TRUE), Ok(FALSE)}

validate_sources(s, outcome) ==
    IF ~VALIDATE_SOURCES_ENABLED THEN Empty
    ELSE IF s.unique_sources = << >>
    THEN [source_validation |->
            [grounded |-> TRUE, issues |-> << >>, confidence |-> 100]]
    ELSE IF ~outcome.ok
    THEN [source_validation |->
            [grounded |-> TRUE, issues |-> << >>, confidence |-> 0]]
    ELSE [source_validation |->
            [grounded |-> outcome.value,
             issues |-> IF outcome.value THEN << >> ELSE <<"unsupported">>,
             confidence |-> 95]]

\* outcome: the rewritten text the model returns, or an exception
ToneOutcomes == {Throw, Ok(""), Ok("rewritten answer")}

ToneUnchanged ==
    [appropriate |-> TRUE, original_text |-> None, adjustments |-> << >>]

\* the body of validate_tone behind its ENABLED toggle
validate_tone_enabled(s, outcome) ==
    IF IsBlank(s.assistant_text) THEN [tone_validation |-> ToneUnchanged]
    ELSE IF ~outcome.ok THEN [tone_validation |-> ToneUnchanged]
    ELSE IF IsBlank(outcome.value) THEN [tone_validation |-> ToneUnchanged]
    ELSE [assistant_text |-> outcome.value,
          tone_validation |->
              [appropriate |-> FALSE, original_text |-> s.assistant_text,
               adjustments |-> <<"Herschreven naar B1-niveau">>]]

validate_tone(s, outcome) ==
    IF ~VALIDATE_TONE_ENABLED THEN Empty
    ELSE validate_tone_enabled(s, outcome)

guardrail_output(s) ==
    [output_guardrail |->
        [safe |-> TRUE, issues |-> << >>, original_text |-> None]]

-----------------------------------------------------------------------------
(* Memory update, save and response *)

should_update_memory(s) ==
    IF s.use_memory THEN "update_memory" ELSE "format_response"

\* qa: the summaries _generate_qa_entry parsed from the model's JSON
GeneratedEntry(exchange_id, source_ids, qa) ==
    [exchange_id |-> exchange_id,
     question_summary |-> qa.question_summary,
     answer_summary |-> qa.answer_summary,
     topics |-> qa.topics, source_ids |-> source_ids,
     user_intent |-> "question", verified |-> qa.verified]

FallbackEntry(exchange_id, source_ids, message, assistant_text) ==
    [exchange_id |-> exchange_id,
     question_summary |-> message,
     answer_summary |-> assistant_text,
     topics |-> << >>, source_ids |-> source_ids,
     user_intent |-> "question", verified |-> FALSE]

QaData == [question_summary |-> "vraag", answer_summary |-> "antwoord",
           topics |-> <<"dpia">>, verified |-> TRUE]

\* outcomes of the two concurrent sub-tasks of update_memory
QaOutcomes == {Throw, Ok(QaData)}
SummaryOutcomes == {Throw, Ok("summary")}

\* update_memory that tests the answer with "if assistant_text:"
update_memory_truthy(s, qa_outcome, summary_outcome) ==
    LET session == s.session
        full_answers ==
            Put(session.full_answers, s.exchange_id,
                [text |-> s.assistant_text, sources |-> s.unique_sources])
        recent ==
            IF s.assistant_text # ""
            THEN Tail10(session.recent_messages \o
                   <<[role |-> "user", content |-> s.message],
                     [role |-> "assistant", content |-> s.assistant_text]>>)
            ELSE session.recent_messages
        entry ==
            IF qa_outcome.ok
            THEN GeneratedEntry(s.exchange_id, s.source_ids, qa_outcome.value)
            ELSE FallbackEntry(s.exchange_id, s.source_ids, s.message,
                               s.assistant_text)
        summary ==
            IF summary_outcome.ok /\ summary_outcome.value # ""
            THEN summary_outcome.value
            ELSE session.summary
    IN [session |->
         [session EXCEPT !.full_answers = full_answers,
                         !.message_count = session.message_count + 1,
                         !.recent_messages = recent,
                         !.qa_index = Append(session.qa_index, entry),
                         !.summary = summary]]

\* update_memory that records the user's message before testing the answer
update_memory_user_first(s, qa_outcome, summary_outcome) ==
    LET session == s.session
        full_answers ==
            Put(session.full_answers, s.exchange_id,
                [text |-> s.assistant_text, sources |-> s.unique_sources])
        recent ==
            Tail10(session.recent_messages
                   \o <<[role |-> "user", content |-> s.message]>>
                   \o (IF ~IsBlank(s.assistant_text)
                       THEN <<[role |-> "assistant",
                               content |-> s.assistant_text]>>
                       ELSE << >>))
        entry ==
            IF qa_outcome.ok
            THEN GeneratedEntry(s.exchange_id, s.source_ids, qa_outcome.value)
            ELSE FallbackEntry(s.exchange_id, s.source_ids, s.message,
                               s.assistant_text)
        summary ==
            IF summary_outcome.ok /\ summary_outcome.value # ""
            THEN summary_outcome.value
            ELSE session.summary
    IN [session |->
         [session EXCEPT !.full_answers = full_answers,
                         !.message_count = session.message_count + 1,
                         !.recent_messages = recent,
                         !.qa_index = Append(session.qa_index, entry),
                         !.summary = summary]]

\* update_memory whose gather lets the first exception through, so that the
\* outer except skips both the Q&A entry and the summary
update_memory_gather_raises(s, qa_outcome, summary_outcome) ==
    LET session == s.session
        full_answers ==
            Put(session.full_answers, s.exchange_id,
                [text |-> s.assistant_text, sources |-> s.unique_sources])
        recent ==
            IF ~IsBlank(s.assistant_text)
            THEN Tail10(session.recent_messages \o
                   <<[role |-> "user", content |-> s.message],
                     [role |-> "assistant", content |-> s.assistant_text]>>)
            ELSE session.recent_messages
        failed == ~qa_outcome.ok \/ ~summary_outcome.ok
        entry == GeneratedEntry(s.exchange_id, s.source_ids, qa_outcome.value)
        summary ==
            IF summary_outcome.value # ""
            THEN summary_outcome.value
            ELSE session.summary
    IN [session |->
         [session EXCEPT !.full_answers = full_answers,
                         !.message_count = session.message_count + 1,
                         !.recent_messages = recent,
                         !.qa_index = IF failed THEN @ ELSE Append(@, entry),
                         !.summary = IF failed THEN @ ELSE summary]]

update_memory(s, qa_outcome, summary_outcome) ==
    LET session == s.session
        full_answers ==
            Put(session.full_answers, s.exchange_id,
                [text |-> s.assistant_text, sources |-> s.unique_sources])
        recent ==
            IF ~IsBlank(s.assistant_text)
            THEN Tail10(session.recent_messages \o
                   <<[role |-> "user", content |-> s.message],
                     [role |-> "assistant", content |-> s.assistant_text]>>)
            ELSE session.recent_messages
        entry ==
            IF qa_outcome.ok
            THEN GeneratedEntry(s.exchange_id, s.source_ids, qa_outcome.value)
            ELSE FallbackEntry(s.exchange_id, s.source_ids, s.message,
                               s.assistant_text)
        summary ==
            IF summary_outcome.ok /\ summary_outcome.value # ""
            THEN summary_outcome.value
            ELSE session.summary
    IN [session |->
         [session EXCEPT !.full_answers = full_answers,
                         !.message_count = session.message_count + 1,
                         !.recent_messages = recent,
                         !.qa_index = Append(session.qa_index, entry),
                         !.summary = summary]]

\* the session save_session builds: session_update merged, pending intent
\* cleared on request, then SessionMemory(**session_data)
SessionToSave(s) ==
    LET session_update == Get(s, "session_update", Empty)
        merged == [k \in DOMAIN s.session \cup DOMAIN session_update |->
                     IF k \in DOMAIN session_update THEN session_update[k]
                     ELSE s.session[k]]
        cleared == IF Get(s.triage, "clear_pending_mcp", FALSE)
                   THEN Drop(merged, "pending_mcp_intent")
                   ELSE merged
    IN SessionMemory(cleared)

save_session(s) == [session |-> SessionToSave(s)]

\* a response that carries the model's own text, not the refined one
format_response_unrefined(s) ==
    LET found == LastAnswerText(s.messages) IN
    [response |->
        [main_answer |-> IF found = "" THEN s.assistant_text ELSE found,
         knowledge_sources |-> s.unique_sources,
         session_id |-> Get(s.session, "session_id", None),
         validation |-> [sources |-> s.source_validation,
                         tone |-> s.tone_validation,
                         output_guardrail |-> s.output_guardrail],
         triage |-> s.triage]]

format_response(s) ==
    [response |->
        [main_answer |-> s.assistant_text,
         knowledge_sources |-> s.unique_sources,
         session_id |-> Get(s.session, "session_id", None),
         validation |-> [sources |-> s.source_validation,
                         tone |-> s.tone_validation,
                         output_guardrail |-> s.output_guardrail],
         triage |-> s.triage]]

-----------------------------------------------------------------------------
(* Loading a session *)

\* load_session that looks the session up whatever use_memory says
LoadsExisting_any_turn(s, st) ==
    s.session_id # 0 /\ SessionStore_exists(st, s.session_id)

LoadsExisting(s, st) ==
    /\ s.use_memory /\ s.session_id # 0
    /\ SessionStore_exists(st, s.session_id)
    /\ SessionStore_loads(st, s.session_id)

\* a load_session that starts an unknown session under the id it was asked
\* for
load_session_under_requested_id(s, st, uuid) ==
    IF LoadsExisting(s, st)
    THEN [session |-> SessionStore_load(st, s.session_id)]
    ELSE [session |-> NewSessionMemory(s.session_id)]

\* uuid: the id SessionStore.create() draws for a new session
load_session(s, st, uuid) ==
    IF LoadsExisting(s, st)
    THEN [session |-> SessionStore_load(st, s.session_id)]
    ELSE [session |-> NewSessionMemory(uuid)]

-----------------------------------------------------------------------------
(* Graph wiring *)

Terminal == {"END", "ABORT"}

\* graph.add_edge(a, b) of build_chat_graph
\* the wiring with the triage early exit going straight to the response
GraphEdge_early_exit_unguarded(node) ==
    CASE node = "load_session" -> "guardrail_input"
      [] node = "guardrail_input" -> "triage_relevance"
      [] node = "triage_relevance" -> "triage_faq"
      [] node = "build_prompt" -> "call_llm"
      [] node = "execute_tools" -> "call_llm"
      [] node = "validate_sources" -> "validate_tone"
      [] node = "validate_tone" -> "guardrail_output"
      [] node = "bundle_triage_response" -> "format_response"
      [] node = "update_memory" -> "save_session"
      [] node = "save_session" -> "format_response"
      [] node = "format_response" -> "END"

GraphEdge(node) ==
    CASE node = "load_session" -> "guardrail_input"
      [] node = "guardrail_input" -> "triage_relevance"
      [] node = "triage_relevance" -> "triage_faq"
      [] node = "build_prompt" -> "call_llm"
      [] node = "execute_tools" -> "call_llm"
      [] node = "validate_sources" -> "validate_tone"
      [] node = "validate_tone" -> "guardrail_output"
      [] node = "bundle_triage_response" -> "guardrail_output"
      [] node = "update_memory" -> "save_session"
      [] node = "save_session" -> "format_response"
      [] node = "format_response" -> "END"

\* edges of the revision with MCP routing and the quality gate
RevisionEdge(node) ==
    CASE node = "triage_faq" -> "triage_mcp"
      [] node = "triage_mcp" -> "triage_intent"
      [] node = "bundle_sources" -> "evaluate_answer"
      [] node = "refine_answer" -> "evaluate_answer"
      [] node = "call_mcp" -> "format_mcp"
      [] node = "format_mcp" -> "guardrail_output"
      [] node = "gather_mcp_params" -> "guardrail_output"

NewObs == [trace |-> << >>, refine_calls |-> 0, refine_outcome |-> "none",
           reads |-> {}, writes |-> << >>, loaded |-> {},
           store0 |-> << >>, tasks |-> << >>,
           mcp |-> << >>, raised |-> << >>, captured |-> << >>,
           last |-> [ended |-> FALSE, state |-> IdleState]]

NewFrame == [phase |-> "none", i |-> 1, tool_messages |-> << >>,
             own |-> << >>, new_sources |-> << >>, raised |-> << >>]

NoProbe == [fn |-> "none"]

IdleTurns(turns) ==
    /\ pc = [t \in Slots |-> "idle"]
    /\ state = [t \in Slots |-> IdleState]
    /\ store = << >>
    /\ nextId = 1
    /\ budget = turns
    /\ state_ref = Empty
    /\ captured_sources = << >>
    /\ frame = [t \in Slots |-> NewFrame]
    /\ obs = [t \in Slots |-> NewObs]

InitWith(turns) == IdleTurns(turns) /\ probe = NoProbe

Enabled(t, node) == pc[t] = node /\ Len(obs[t].trace) < MaxTrace

\* the graph merges the node's update into the turn record and follows the
\* outgoing edge
RunNode(t, update, next) ==
    /\ state' = [state EXCEPT ![t] = Merge(@, update)]
    /\ pc' = [pc EXCEPT ![t] = next]

Traced(t, node) == obs' = [obs EXCEPT ![t].trace = Append(@, node)]

\* as Traced, and notes the node when its model call was made and raised
TracedCall(t, node, made, outcome) ==
    obs' = [obs EXCEPT
              ![t].trace = Append(@, node),
              ![t].raised = IF made /\ ~outcome.ok THEN Append(@, node)
                            ELSE @]

-----------------------------------------------------------------------------
(* Actions: one per graph node, plus the start of a turn *)

chat(t, message, session_id, use_memory) ==
    /\ pc[t] \in {"idle"} \cup Terminal
    /\ budget > 0
    /\ budget' = budget - 1
    /\ state' = [state EXCEPT
                   ![t] = InitialState(message, session_id, use_memory)]
    /\ pc' = [pc EXCEPT ![t] = "load_session"]
    /\ obs' = [obs EXCEPT
                 ![t] = [NewObs EXCEPT
                           !.store0 = store,
                           !.last = [ended |-> pc[t] = "END",
                                     state |-> state[t]]]]
    /\ frame' = [frame EXCEPT ![t] = NewFrame]
    /\ UNCHANGED <<probe, store, nextId, state_ref, captured_sources>>

Run_load_session(t) ==
    /\ Enabled(t, "load_session")
    /\ RunNode(t, load_session(state[t], store, nextId),
               GraphEdge("load_session"))
    /\ IF LoadsExisting(state[t], store)
       THEN /\ UNCHANGED <<probe, store, nextId>>
            /\ obs' = [obs EXCEPT
                  ![t].trace = Append(@, "load_session"),
                  ![t].loaded = @ \cup {state[t].session_id}]
       ELSE /\ store' = SessionStore_create(store, nextId)
            /\ nextId' = nextId + 1
            /\ obs' = [obs EXCEPT
                  ![t].trace = Append(@, "load_session"),
                  ![t].writes = Append(@, "load_session")]
    /\ UNCHANGED <<probe, budget, state_ref, captured_sources, frame>>

Run_guardrail_input(t) ==
    /\ Enabled(t, "guardrail_input")
    /\ RunNode(t, guardrail_input_with_init(state[t]),
               GraphEdge("guardrail_input"))
    /\ Traced(t, "guardrail_input")
    /\ UNCHANGED <<probe, store, nextId, budget, state_ref, captured_sources, frame>>

Run_triage_relevance(t) ==
    /\ Enabled(t, "triage_relevance")
    /\ RunNode(t, triage_relevance(state[t]), GraphEdge("triage_relevance"))
    /\ Traced(t, "triage_relevance")
    /\ UNCHANGED <<probe, store, nextId, budget, state_ref, captured_sources, frame>>

Run_triage_faq(t, Services, Candidates) ==
    /\ Enabled(t, "triage_faq")
    /\ \E faq_service \in Services, matches \in Candidates :
          RunNode(t, triage_faq(state[t], faq_service, matches),
                  RevisionEdge("triage_faq"))
    /\ Traced(t, "triage_faq")
    /\ UNCHANGED <<probe, store, nextId, budget, state_ref, captured_sources, frame>>

Run_triage_mcp(t, Classifications) ==
    /\ Enabled(t, "triage_mcp")
    /\ \E classification \in Classifications :
          RunNode(t, triage_mcp(state[t], classification),
                  RevisionEdge("triage_mcp"))
    /\ Traced(t, "triage_mcp")
    /\ UNCHANGED <<probe, store, nextId, budget, state_ref, captured_sources, frame>>

Run_triage_intent(t) ==
    /\ Enabled(t, "triage_intent")
    /\ LET update == triage_intent(state[t]) IN
       RunNode(t, update, should_call_llm(Merge(state[t], update)))
    /\ Traced(t, "triage_intent")
    /\ UNCHANGED <<probe, store, nextId, budget, state_ref, captured_sources, frame>>

Run_bundle_triage_response(t) ==
    /\ Enabled(t, "bundle_triage_response")
    /\ RunNode(t, _bundle_triage_response(state[t], nextId),
               GraphEdge("bundle_triage_response"))
    /\ nextId' = nextId + 1
    /\ Traced(t, "bundle_triage_response")
    /\ UNCHANGED <<probe, store, budget, state_ref, captured_sources, frame>>

Run_gather_mcp_params(t) ==
    /\ Enabled(t, "gather_mcp_params")
    /\ RunNode(t, gather_mcp_params(state[t], nextId),
               RevisionEdge("gather_mcp_params"))
    /\ nextId' = nextId + 1
    /\ Traced(t, "gather_mcp_params")
    /\ UNCHANGED <<probe, store, budget, state_ref, captured_sources, frame>>

Run_call_mcp(t, Outcomes) ==
    /\ Enabled(t, "call_mcp")
    /\ \E outcome \in Outcomes :
          /\ RunNode(t, call_mcp(state[t], nextId, outcome),
                     RevisionEdge("call_mcp"))
          /\ obs' = [obs EXCEPT ![t].trace = Append(@, "call_mcp"),
                                ![t].mcp = Append(@, outcome)]
    /\ nextId' = nextId + 1
    /\ UNCHANGED <<probe, store, budget, state_ref, captured_sources, frame>>

Run_format_mcp(t, Outcomes) ==
    /\ Enabled(t, "format_mcp")
    /\ \E outcome \in Outcomes :
          RunNode(t, format_mcp(state[t], outcome),
                  RevisionEdge("format_mcp"))
    /\ Traced(t, "format_mcp")
    /\ UNCHANGED <<probe, store, nextId, budget, state_ref, captured_sources, frame>>

Run_build_prompt(t) ==
    /\ Enabled(t, "build_prompt")
    /\ RunNode(t, build_prompt(state[t]), GraphEdge("build_prompt"))
    /\ Traced(t, "build_prompt")
    /\ UNCHANGED <<probe, store, nextId, budget, state_ref, captured_sources, frame>>

\* call_llm_with_sync: publish the turn's session in _state_ref, then call
\* the model; an exception of the model call ends the turn
Run_call_llm(t, Replies) ==
    /\ Enabled(t, "call_llm")
    /\ state_ref' = Put(state_ref, "session", state[t].session)
    /\ \E outcome \in Replies :
          IF outcome.ok
          THEN LET update == call_llm(state[t], outcome.value) IN
               RunNode(t, update, should_continue(Merge(state[t], update)))
          ELSE /\ pc' = [pc EXCEPT ![t] = "ABORT"]
               /\ UNCHANGED state
    /\ Traced(t, "call_llm")
    /\ UNCHANGED <<probe, store, nextId, budget, captured_sources, frame>>

\* execute_tools runs in a worker thread; its steps interleave with the
\* steps of other turns: clear the accumulator, ...
execute_tools_clear(t) ==
    /\ Enabled(t, "execute_tools")
    /\ frame[t].phase # "run"
    /\ captured_sources' = << >>
    /\ frame' = [frame EXCEPT ![t] = [NewFrame EXCEPT !.phase = "run"]]
    /\ UNCHANGED <<probe, pc, state, store, nextId, budget, state_ref, obs>>

\* an execute_tools that passes over the calls that name no known tool
execute_tools_invoke_known_only(t, Results) ==
    /\ pc[t] = "execute_tools"
    /\ frame[t].phase = "run"
    /\ LET tool_calls == Last(state[t].messages).tool_calls
           i == frame[t].i IN
       /\ i <= Len(tool_calls)
       /\ \E outcome \in ToolOutcomes(tool_calls[i], Results) :
             LET r == InvokeTool(tool_calls[i],
                                 Get(state_ref, "session", Empty), outcome) IN
             /\ captured_sources' = captured_sources \o r.captured
             /\ frame' = [frame EXCEPT
                   ![t].i = i + 1,
                   ![t].tool_messages =
                       IF r.result = "Unknown tool" THEN @
                       ELSE Append(@, ToolMessage(r.result,
                                                  tool_calls[i].id)),
                   ![t].own = @ \o r.captured,
                   ![t].raised = Append(@, ~outcome.ok)]
             /\ obs' = [obs EXCEPT ![t].reads = @ \cup r.read,
                                    ![t].captured = @ \o r.captured]
    /\ UNCHANGED <<probe, pc, state, store, nextId, budget, state_ref>>

\* ... invoke each requested tool in order, ...
execute_tools_invoke(t, Results) ==
    /\ pc[t] = "execute_tools"
    /\ frame[t].phase = "run"
    /\ LET tool_calls == Last(state[t].messages).tool_calls
           i == frame[t].i IN
       /\ i <= Len(tool_calls)
       /\ \E outcome \in ToolOutcomes(tool_calls[i], Results) :
             LET r == InvokeTool(tool_calls[i],
                                 Get(state_ref, "session", Empty), outcome) IN
             /\ captured_sources' = captured_sources \o r.captured
             /\ frame' = [frame EXCEPT
                   ![t].i = i + 1,
                   ![t].tool_messages =
                       Append(@, ToolMessage(r.result, tool_calls[i].id)),
                   ![t].own = @ \o r.captured,
                   ![t].raised = Append(@, ~outcome.ok)]
             /\ obs' = [obs EXCEPT ![t].reads = @ \cup r.read,
                                    ![t].captured = @ \o r.captured]
    /\ UNCHANGED <<probe, pc, state, store, nextId, budget, state_ref>>

\* ... then drain the accumulator into the node's update
execute_tools_drain(t) ==
    /\ pc[t] = "execute_tools"
    /\ frame[t].phase = "run"
    /\ frame[t].i > Len(Last(state[t].messages).tool_calls)
    /\ LET new_sources == captured_sources IN
       /\ captured_sources' = << >>
       /\ RunNode(t, [messages |-> frame[t].tool_messages,
                      retrieved_sources |-> new_sources],
                  GraphEdge("execute_tools"))
       /\ frame' = [frame EXCEPT ![t].phase = "done",
                                 ![t].new_sources = new_sources]
    /\ Traced(t, "execute_tools")
    /\ UNCHANGED <<probe, store, nextId, budget, state_ref>>

Run_bundle_sources(t) ==
    /\ Enabled(t, "bundle_sources")
    /\ RunNode(t, bundle_sources(state[t], nextId),
               RevisionEdge("bundle_sources"))
    /\ nextId' = nextId + 1
    /\ Traced(t, "bundle_sources")
    /\ UNCHANGED <<probe, store, budget, state_ref, captured_sources, frame>>

Run_evaluate_answer(t, Outcomes) ==
    /\ Enabled(t, "evaluate_answer")
    /\ \E outcome \in Outcomes :
          LET update == evaluate_answer(state[t], outcome) IN
          /\ RunNode(t, update,
                     should_route_after_evaluate(Merge(state[t], update)))
          /\ TracedCall(t, "evaluate_answer",
                        ~IsBlank(state[t].assistant_text), outcome)
    /\ UNCHANGED <<probe, store, nextId, budget, state_ref, captured_sources, frame>>

Run_quality_gate(t) ==
    /\ Enabled(t, "quality_gate")
    /\ LET update == quality_gate(state[t]) IN
       RunNode(t, update, should_refine_from_state(Merge(state[t], update)))
    /\ Traced(t, "quality_gate")
    /\ UNCHANGED <<probe, store, nextId, budget, state_ref, captured_sources, frame>>

RefineOutcome(s, outcome) ==
    IF ~RefineAttempts(s) THEN "none"
    ELSE IF ~outcome.ok THEN "throw"
    ELSE IF IsBlank(outcome.value) THEN "blank"
    ELSE "text"

Run_refine_answer(t, Outcomes) ==
    /\ Enabled(t, "refine_answer")
    /\ \E outcome \in Outcomes :
          /\ RunNode(t, refine_answer(state[t], outcome),
                     RevisionEdge("refine_answer"))
          /\ obs' = [obs EXCEPT
                ![t].trace = Append(@, "refine_answer"),
                ![t].refine_calls =
                    IF RefineAttempts(state[t]) THEN @ + 1 ELSE @,
                ![t].refine_outcome = RefineOutcome(state[t], outcome)]
    /\ UNCHANGED <<probe, store, nextId, budget, state_ref, captured_sources, frame>>

Run_validate_sources(t, Outcomes) ==
    /\ Enabled(t, "validate_sources")
    /\ \E outcome \in Outcomes :
          /\ RunNode(t, validate_sources(state[t], outcome),
                     GraphEdge("validate_sources"))
          /\ TracedCall(t, "validate_sources",
                        VALIDATE_SOURCES_ENABLED
                          /\ state[t].unique_sources # << >>, outcome)
    /\ UNCHANGED <<probe, store, nextId, budget, state_ref, captured_sources, frame>>

Run_validate_tone(t, Outcomes) ==
    /\ Enabled(t, "validate_tone")
    /\ \E outcome \in Outcomes :
          /\ RunNode(t, validate_tone(state[t], outcome),
                     GraphEdge("validate_tone"))
          /\ TracedCall(t, "validate_tone",
                        VALIDATE_TONE_ENABLED
                          /\ ~IsBlank(state[t].assistant_text), outcome)
    /\ UNCHANGED <<probe, store, nextId, budget, state_ref, captured_sources, frame>>

Run_guardrail_output(t) ==
    /\ Enabled(t, "guardrail_output")
    /\ LET update == guardrail_output(state[t]) IN
       RunNode(t, update, should_update_memory(Merge(state[t], update)))
    /\ Traced(t, "guardrail_output")
    /\ UNCHANGED <<probe, store, nextId, budget, state_ref, captured_sources, frame>>

Run_update_memory(t, Qa, Summaries) ==
    /\ Enabled(t, "update_memory")
    /\ \E qa_outcome \in Qa, summary_outcome \in Summaries :
          /\ RunNode(t, update_memory(state[t], qa_outcome, summary_outcome),
                     GraphEdge("update_memory"))
          /\ obs' = [obs EXCEPT
                ![t].trace = Append(@, "update_memory"),
                ![t].tasks = Append(@, [qa |-> qa_outcome,
                                        summary |-> summary_outcome])]
    /\ UNCHANGED <<probe, store, nextId, budget, state_ref, captured_sources, frame>>

Run_save_session(t) ==
    /\ Enabled(t, "save_session")
    /\ RunNode(t, save_session(state[t]), GraphEdge("save_session"))
    /\ store' = SessionStore_save(store, SessionToSave(state[t]))
    /\ obs' = [obs EXCEPT ![t].trace = Append(@, "save_session"),
                          ![t].writes = Append(@, "save_session")]
    /\ UNCHANGED <<probe, nextId, budget, state_ref, captured_sources, frame>>

Run_format_response(t) ==
    /\ Enabled(t, "format_response")
    /\ RunNode(t, format_response(state[t]), GraphEdge("format_response"))
    /\ Traced(t, "format_response")
    /\ UNCHANGED <<probe, store, nextId, budget, state_ref, captured_sources, frame>>

-----------------------------------------------------------------------------
(* One turn over the whole graph *)

MsgPlain == <<"wat", "is", "een", "dpia">>
MsgMcpList == <<"mcp:", "welke", "wetten">>
MsgMcpLaw == <<"mcp:", "zorgtoeslag">>
MsgToeslag == <<"zorgtoeslag", "inkomen", "30000">>

Messages == {MsgPlain, MsgMcpList, MsgMcpLaw, MsgToeslag}

Classifications == {"JA", "NEE", "throw"}

SearchCall == [name |-> "search_knowledge_base", args |-> "dpia", id |-> "c1"]
LookupCall ==
    [name |-> "lookup_past_conversation", args |-> "dpia", id |-> "c2"]
UnknownCall == [name |-> "web_search", args |-> "dpia", id |-> "c3"]

TextReply == Ok(AIMessage("het antwoord", << >>))

LLMReplies ==
    {Throw, TextReply,
     Ok(AIMessage("", << >>)),
     Ok(AIMessage("", <<SearchCall>>)),
     Ok(AIMessage("ik zoek het op", <<LookupCall, UnknownCall>>))}

Next ==
    \E t \in {1} :
      \/ \E message \in Messages, use_memory \in BOOLEAN :
            chat(t, message, 0, use_memory)
      \/ Run_load_session(t)
      \/ Run_guardrail_input(t)
      \/ Run_triage_relevance(t)
      \/ Run_triage_faq(t, BOOLEAN, FaqCandidates)
      \/ Run_triage_mcp(t, Classifications)
      \/ Run_triage_intent(t)
      \/ Run_bundle_triage_response(t)
      \/ Run_gather_mcp_params(t)
      \/ Run_call_mcp(t, McpOutcomes)
      \/ Run_format_mcp(t, FormatOutcomes)
      \/ Run_build_prompt(t)
      \/ Run_call_llm(t, LLMReplies)
      \/ execute_tools_clear(t)
      \/ execute_tools_invoke(t, SearchResults)
      \/ execute_tools_drain(t)
      \/ Run_bundle_sources(t)
      \/ Run_evaluate_answer(t, EvalOutcomes)
      \/ Run_quality_gate(t)
      \/ Run_refine_answer(t, RefineOutcomes)
      \/ Run_validate_sources(t, SourceOutcomes)
      \/ Run_validate_tone(t, ToneOutcomes)
      \/ Run_guardrail_output(t)
      \/ Run_update_memory(t, QaOutcomes, SummaryOutcomes)
      \/ Run_save_session(t)
      \/ Run_format_response(t)

Init == InitWith(1)

Spec == Init /\ [][Next]_vars

\* One turn under weak fairness: the event loop keeps running an enabled
\* node.  Each external call returns or raises.
NextFair ==
    \E t \in {1} :
      \/ \E message \in {MsgPlain, MsgMcpList, MsgMcpLaw},
            use_memory \in BOOLEAN :
            chat(t, message, 0, use_memory)
      \/ Run_load_session(t)
      \/ Run_guardrail_input(t)
      \/ Run_triage_relevance(t)
      \/ Run_triage_faq(t, {TRUE}, {<< >>, <<FaqMatch(90)>>})
      \/ Run_triage_mcp(t, {"NEE", "throw"})
      \/ Run_triage_intent(t)
      \/ Run_bundle_triage_response(t)
      \/ Run_gather_mcp_params(t)
      \/ Run_call_mcp(t, {"ok", "unreachable"})
      \/ Run_format_mcp(t, {Throw, Ok("formatted answer")})
      \/ Run_build_prompt(t)
      \/ Run_call_llm(t, {Throw, TextReply, Ok(AIMessage("", <<SearchCall>>))})
      \/ execute_tools_clear(t)
      \/ execute_tools_invoke(t, {<<Doc1>>})
      \/ execute_tools_drain(t)
      \/ Run_bundle_sources(t)
      \/ Run_evaluate_answer(t, EvalOutcomes)
      \/ Run_quality_gate(t)
      \/ Run_refine_answer(t, {Throw, Ok(""), Ok("refined answer")})
      \/ Run_validate_sources(t, {Throw, Ok(FALSE)})
      \/ Run_validate_tone(t, {Throw, Ok("rewritten answer")})
      \/ Run_guardrail_output(t)
      \/ Run_update_memory(t, QaOutcomes, {Ok("summary")})
      \/ Run_save_session(t)
      \/ Run_format_response(t)

FairSpec == Init /\ [][NextFair]_vars /\ WF_vars(NextFair)

-----------------------------------------------------------------------------
(* Properties of one turn *)

Executed(t, node) == \E i \in DOMAIN obs[t].trace : obs[t].trace[i] = node

SkipLLM(t) == Get(state[t].triage, "skip_llm", FALSE)

ReasoningNodes == {"build_prompt", "call_llm", "execute_tools"}

TriageChecks ==
    {"triage_relevance", "triage_faq", "triage_mcp", "triage_intent"}

\* the node the graph entered when the triage chain ended
AfterTriage(t) ==
    LET trace == obs[t].trace
        k == CHOOSE i \in DOMAIN trace : trace[i] = "triage_intent" IN
    IF Len(trace) > k THEN trace[k + 1] ELSE pc[t]

\* C1: a turn executes call_llm at most MAX_TOOL_ROUNDS + 1 times, whatever
\* the model replies
C1_ModelCallsBounded ==
    \A t \in Slots : Count(obs[t].trace, "call_llm") <= MAX_TOOL_ROUNDS + 1

\* the model asked for tools in every reply until the loop was cut off
C1_Witness ==
    /\ Count(obs[1].trace, "call_llm") = MAX_TOOL_ROUNDS
    /\ state[1].tool_rounds = MAX_TOOL_ROUNDS
    /\ pc[1] = "bundle_sources"
    /\ Last(state[1].messages).tool_calls # << >>

\* C2: every turn that starts reaches END or aborts, for every outcome of
\* every external call and every routing decision
C2_TurnTerminates ==
    \A t \in {1} : (pc[t] = "load_session") ~> (pc[t] \in Terminal)

\* a turn that went through both loops and ended
C2_Witness ==
    /\ pc[1] = "END"
    /\ Count(obs[1].trace, "execute_tools") = MAX_TOOL_ROUNDS - 1
    /\ Count(obs[1].trace, "evaluate_answer") = 2
    /\ obs[1].refine_calls = 1

C4_DecidedStaysDecided ==
    [][\A t \in Slots :
          (pc[t] \in TriageChecks /\ pc'[t] # pc[t] /\ SkipLLM(t)) =>
              /\ state'[t].triage.route = state[t].triage.route
              /\ state'[t].triage.early_response
                    = state[t].triage.early_response]_vars

\* C7: refine_answer calls the model at most once in a turn; once
\* refined_once is set, refine_answer and quality_gate return empty updates
\* and both routing functions answer validate_sources
C7_RefineAtMostOnce ==
    \A t \in Slots :
       /\ obs[t].refine_calls <= 1
       /\ state[t].refined_once =>
            /\ \A outcome \in RefineOutcomes :
                  DOMAIN refine_answer(state[t], outcome) = {}
            /\ DOMAIN quality_gate(state[t]) = {}
            /\ should_route_after_evaluate(state[t]) = "validate_sources"
            /\ should_refine_from_state(state[t]) = "validate_sources"

\* the refined draft was evaluated again and still scores low
C7_Witness ==
    /\ state[1].refined_once
    /\ obs[1].refine_calls = 1
    /\ Count(obs[1].trace, "evaluate_answer") = 2
    /\ state[1].answer_evaluation = BadScores
    /\ pc[1] = "validate_sources"

\* C8: a refine_answer that attempts the refinement sets refined_once on
\* every outcome, and leaves assistant_text alone when the model throws or
\* returns blank text
C8_RefineAlwaysMarks ==
    [][\A t \in Slots :
          (pc[t] = "refine_answer" /\ pc'[t] # pc[t]
             /\ RefineAttempts(state[t])) =>
              /\ state'[t].refined_once
              /\ obs'[t].refine_outcome \in {"throw", "blank"} =>
                    state'[t].assistant_text = state[t].assistant_text
              /\ obs'[t].refine_outcome = "text" =>
                    ~IsBlank(state'[t].assistant_text)]_vars

\* the model threw during the refinement
C8_Witness ==
    /\ obs[1].refine_outcome = "throw"
    /\ state[1].refined_once
    /\ pc[1] = "evaluate_answer"

-----------------------------------------------------------------------------
(* Consecutive turns of one conversation with memory *)

\* the client sends back the session id of the previous response
KnownSessionIds == IF DOMAIN store = {} THEN {0} ELSE DOMAIN store

NextMem ==
    \E t \in {1} :
      \/ \E message \in {MsgPlain, MsgMcpList},
            session_id \in KnownSessionIds :
            chat(t, message, session_id, TRUE)
      \/ Run_load_session(t)
      \/ Run_guardrail_input(t)
      \/ Run_triage_relevance(t)
      \/ Run_triage_faq(t, {TRUE}, {<< >>})
      \/ Run_triage_mcp(t, {"NEE"})
      \/ Run_triage_intent(t)
      \/ Run_call_mcp(t, {"ok"})
      \/ Run_format_mcp(t, {Ok(""), Ok(" ")})
      \/ Run_build_prompt(t)
      \/ Run_call_llm(t, {TextReply})
      \/ Run_bundle_sources(t)
      \/ Run_evaluate_answer(t, {Ok(GoodScores)})
      \/ Run_quality_gate(t)
      \/ Run_validate_sources(t, {Ok(TRUE)})
      \/ Run_validate_tone(t, {Throw})
      \/ Run_guardrail_output(t)
      \/ Run_update_memory(t, {Ok(QaData)}, {Ok("summary")})
      \/ Run_save_session(t)
      \/ Run_format_response(t)

InitMem == InitWith(MaxMemTurns)

SpecMem == InitMem /\ [][NextMem]_vars

\* every copy of a session: the persisted ones and the ones turns hold
Sessions ==
    {store[sid] : sid \in DOMAIN store}
       \cup {state[t].session :
               t \in {u \in Slots : DOMAIN state[u].session # {}}}

\* C5: recent_messages never holds more than 10 entries and never an
\* assistant entry whose content is blank
C5_RecentBounded ==
    \A session \in Sessions :
       /\ Len(session.recent_messages) <= 10
       /\ \A i \in DOMAIN session.recent_messages :
             session.recent_messages[i].role = "assistant" =>
                ~IsBlank(session.recent_messages[i].content)

\* the sixth answered turn was saved: twelve entries trimmed to ten
C5_Witness ==
    \E sid \in DOMAIN store :
       /\ store[sid].message_count = 6
       /\ Len(store[sid].recent_messages) = 10

\* C6: recent_messages is a sequence of complete pairs, a user entry
\* followed by an assistant entry; a turn with a blank answer adds neither
C6_RecentPairs ==
    \A session \in Sessions :
       LET recent == session.recent_messages IN
       /\ Len(recent) % 2 = 0
       /\ \A i \in DOMAIN recent :
             recent[i].role = (IF i % 2 = 1 THEN "user" ELSE "assistant")

\* two answered turns and one turn with a blank answer were saved
C6_Witness ==
    \E sid \in DOMAIN store :
       /\ store[sid].message_count = 3
       /\ Len(store[sid].recent_messages) = 4
       /\ \E eid \in DOMAIN store[sid].full_answers :
             IsBlank(store[sid].full_answers[eid].text)

-----------------------------------------------------------------------------
(* Two turns in flight on the one compiled graph *)

SlotDoc(t) == IF t = 1 THEN Doc1 ELSE Doc2

ToolsReply == Ok(AIMessage("", <<SearchCall, LookupCall>>))

\* the model stops asking for tools after MaxConcRounds rounds
ConcReplies(s) ==
    IF s.tool_rounds < MaxConcRounds
    THEN {TextReply, ToolsReply}
    ELSE {TextReply}

NextConc ==
    \E t \in Slots :
      \/ chat(t, MsgPlain, 0, TRUE)
      \/ Run_load_session(t)
      \/ Run_guardrail_input(t)
      \/ Run_triage_relevance(t)
      \/ Run_triage_faq(t, {FALSE}, {<< >>})
      \/ Run_triage_mcp(t, {"NEE"})
      \/ Run_triage_intent(t)
      \/ Run_build_prompt(t)
      \/ Run_call_llm(t, ConcReplies(state[t]))
      \/ execute_tools_clear(t)
      \/ execute_tools_invoke(t, {<<SlotDoc(t)>>})
      \/ execute_tools_drain(t)
      \/ Run_bundle_sources(t)
      \/ Run_evaluate_answer(t, {Ok(GoodScores)})
      \/ Run_quality_gate(t)
      \/ Run_validate_sources(t, {Ok(TRUE)})
      \/ Run_validate_tone(t, {Throw})
      \/ Run_guardrail_output(t)
      \/ Run_update_memory(t, {Ok(QaData)}, {Ok("summary")})
      \/ Run_save_session(t)
      \/ Run_format_response(t)

InitConc == InitWith(2)

SpecConc == InitConc /\ [][NextConc]_vars

\* C9: a tool that reads session memory reads the session of the turn that
\* called it
C9_ToolsReadOwnSession ==
    \A t \in Slots :
       \A sid \in obs[t].reads : sid = state[t].session.session_id

\* C10: the sources a round of execute_tools adds to retrieved_sources are
\* the ones captured by that round's own tool calls
C10_OwnSourcesOnly ==
    \A t \in Slots :
       frame[t].phase = "done" => frame[t].new_sources = frame[t].own

-----------------------------------------------------------------------------
(* Two turns in flight on one persisted session *)

\* a session an earlier request created
SharedSid == 1

InitShared ==
    /\ pc = [t \in Slots |-> "idle"]
    /\ state = [t \in Slots |-> IdleState]
    /\ store = SessionStore_create(<< >>, SharedSid)
    /\ nextId = SharedSid + 1
    /\ budget = 2
    /\ state_ref = Empty
    /\ captured_sources = << >>
    /\ frame = [t \in Slots |-> NewFrame]
    /\ obs = [t \in Slots |-> NewObs]
    /\ probe = NoProbe

NextShared ==
    \E t \in Slots :
      \/ chat(t, MsgPlain, SharedSid, TRUE)
      \/ Run_load_session(t)
      \/ Run_guardrail_input(t)
      \/ Run_triage_relevance(t)
      \/ Run_triage_faq(t, {FALSE}, {<< >>})
      \/ Run_triage_mcp(t, {"NEE"})
      \/ Run_triage_intent(t)
      \/ Run_build_prompt(t)
      \/ Run_call_llm(t, {TextReply})
      \/ Run_bundle_sources(t)
      \/ Run_evaluate_answer(t, {Ok(GoodScores)})
      \/ Run_quality_gate(t)
      \/ Run_validate_sources(t, {Ok(TRUE)})
      \/ Run_validate_tone(t, {Throw})
      \/ Run_guardrail_output(t)
      \/ Run_update_memory(t, {Ok(QaData)}, {Ok("summary")})
      \/ Run_save_session(t)
      \/ Run_format_response(t)

SpecShared == InitShared /\ [][NextShared]_vars

\* C11: when two turns on the same session id have both completed, the
\* persisted session counts both exchanges and archives both answers
C11_BothExchangesPersisted ==
    (\A t \in Slots : pc[t] = "END" /\ state[t].session_id = SharedSid) =>
        /\ store[SharedSid].message_count = 2
        /\ \A t \in Slots :
              state[t].exchange_id \in DOMAIN store[SharedSid].full_answers

-----------------------------------------------------------------------------
(* Store traffic of one turn *)

\* C12: a turn writes to the session store at most once, and the writer is
\* save_session
C12_OneWriteBySave ==
    \A t \in Slots :
       /\ Len(obs[t].writes) <= 1
       /\ \A i \in DOMAIN obs[t].writes : obs[t].writes[i] = "save_session"

-----------------------------------------------------------------------------
(* A turn and its follow-up, with or without memory *)

MsgInkomen == <<"mijn", "inkomen", "is", "30000">>

\* a message of white space only
MsgBlank == << >>

NextFollow ==
    \E t \in {1} :
      \/ \E message \in {MsgPlain, MsgMcpLaw, MsgInkomen, MsgBlank},
            session_id \in KnownSessionIds,
            use_memory \in BOOLEAN :
            chat(t, message, session_id, use_memory)
      \/ Run_load_session(t)
      \/ Run_guardrail_input(t)
      \/ Run_triage_relevance(t)
      \/ Run_triage_faq(t, {TRUE}, {<< >>})
      \/ Run_triage_mcp(t, {"NEE"})
      \/ Run_triage_intent(t)
      \/ Run_gather_mcp_params(t)
      \/ Run_build_prompt(t)
      \/ Run_call_llm(t, {TextReply})
      \/ Run_bundle_sources(t)
      \/ Run_evaluate_answer(t, {Ok(GoodScores)})
      \/ Run_quality_gate(t)
      \/ Run_validate_sources(t, {Ok(TRUE)})
      \/ Run_validate_tone(t, {Throw})
      \/ Run_guardrail_output(t)
      \/ Run_update_memory(t, QaOutcomes, SummaryOutcomes)
      \/ Run_save_session(t)
      \/ Run_format_response(t)

InitFollow == InitWith(MaxFollowTurns)

SpecFollow == InitFollow /\ [][NextFollow]_vars

\* C13: a turn with use_memory = false never runs update_memory or
\* save_session, loads no persisted session, leaves every session that was
\* persisted when it started as it was, and works on a new empty session
C13_NoMemoryTurnIsolated ==
    \A t \in Slots :
       (pc[t] # "idle" /\ ~state[t].use_memory) =>
          /\ ~Executed(t, "update_memory") /\ pc[t] # "update_memory"
          /\ ~Executed(t, "save_session") /\ pc[t] # "save_session"
          /\ obs[t].loaded = {}
          /\ \A sid \in DOMAIN obs[t].store0 :
                sid \in DOMAIN store /\ store[sid] = obs[t].store0[sid]
          /\ Executed(t, "load_session") =>
                /\ state[t].session.session_id \notin DOMAIN obs[t].store0
                /\ state[t].session
                     = NewSessionMemory(state[t].session.session_id)

\* a turn without memory that named a session with one saved exchange ended
C13_Witness ==
    /\ pc[1] = "END"
    /\ ~state[1].use_memory
    /\ state[1].session_id \in DOMAIN obs[1].store0
    /\ obs[1].store0[state[1].session_id].message_count = 1

\* C14: whatever way the two sub-tasks of update_memory end, the node goes
\* on to save_session, the Q&A index gains exactly one entry with the turn's
\* exchange id (the generated one if that task succeeded, the local fallback
\* otherwise), and the summary is the new one iff the summary task succeeded
C14_MemoryTasksIndependent ==
    [][\A t \in Slots :
         (pc[t] = "update_memory" /\ pc'[t] # "update_memory") =>
            LET o == Last(obs'[t].tasks)
                s == state[t]
                old == s.session
                new == state'[t].session
            IN /\ pc'[t] = "save_session"
               /\ Len(new.qa_index) = Len(old.qa_index) + 1
               /\ SubSeq(new.qa_index, 1, Len(old.qa_index)) = old.qa_index
               /\ Last(new.qa_index).exchange_id = s.exchange_id
               /\ Last(new.qa_index) =
                    IF o.qa.ok
                    THEN GeneratedEntry(s.exchange_id, s.source_ids,
                                        o.qa.value)
                    ELSE FallbackEntry(s.exchange_id, s.source_ids,
                                       s.message, s.assistant_text)
               /\ new.summary = IF o.summary.ok THEN o.summary.value
                                ELSE old.summary]_vars

\* a second turn on a session whose Q&A task failed while its summary task
\* succeeded, after a first turn where it was the other way round
C14_Witness ==
    /\ pc[1] = "save_session"
    /\ Len(obs[1].tasks) = 1
    /\ ~obs[1].tasks[1].qa.ok /\ obs[1].tasks[1].summary.ok
    /\ Len(state[1].session.qa_index) = 2
    /\ state[1].session.qa_index[1].verified

\* C15: when a turn that asked for the missing parameters of a known law type
\* has saved its session, the stored session holds the pending intent with
\* that law type and the parameters collected so far
C15_PendingIntentPersisted ==
    \A t \in Slots :
       (/\ pc[t] = "END"
        /\ Executed(t, "gather_mcp_params")
        /\ Executed(t, "save_session")
        /\ Get(state[t].triage, "mcp_law_type", None) \in DOMAIN MCP_LAW_PARAMS)
       => LET saved == store[state[t].session.session_id] IN
          /\ "pending_mcp_intent" \in DOMAIN saved
          /\ saved.pending_mcp_intent
               = [law_type |-> state[t].triage.mcp_law_type,
                  params |-> Get(state[t].triage, "mcp_params", << >>)]

-----------------------------------------------------------------------------
(* Routing to the rule-execution engine *)

MissingRequired(triage) ==
    {param \in MCP_LAW_PARAMS[triage.mcp_law_type].required :
        param \notin DOMAIN Get(triage, "mcp_params", << >>)}

\* C16: once a law type with required parameters is detected, route = mcp
\* implies that every required parameter is in triage.mcp_params; with one
\* missing the route is mcp_gather_params and call_mcp is not reached
C16_EngineOnlyWithRequiredParams ==
    \A t \in Slots :
       LET triage == state[t].triage IN
       (pc[t] # "idle" /\
        Get(triage, "mcp_law_type", None) \in DOMAIN MCP_LAW_PARAMS) =>
          /\ Get(triage, "route", None) = "mcp"
                => MissingRequired(triage) = {}
          /\ MissingRequired(triage) # {} =>
                /\ Get(triage, "route", None) = "mcp_gather_params"
                /\ ~Executed(t, "call_mcp")
                /\ pc[t] \notin {"call_mcp", "format_mcp"}

\* a turn whose message named a law and its income went through call_mcp
C16_Witness ==
    /\ Executed(1, "call_mcp")
    /\ Get(state[1].triage, "mcp_law_type", None) = "zorgtoeslag"
    /\ "inkomen" \in DOMAIN Get(state[1].triage, "mcp_params", << >>)

\* C17: a turn routed to mcp while MCP_SERVER_URL is not set ends with
\* response.main_answer equal to the fixed not-configured message
C17_NotConfiguredMessageKept ==
    \A t \in Slots :
       (pc[t] = "END" /\ obs[t].mcp = <<"unset">>) =>
           state[t].response.main_answer = MCP_NOT_CONFIGURED_MSG

-----------------------------------------------------------------------------
(* The output guardrail as the last gate *)

AnswerNodes ==
    {"call_llm", "refine_answer", "bundle_triage_response", "call_mcp",
     "format_mcp", "gather_mcp_params"}

AfterGuardrail == {"update_memory", "save_session", "format_response", "END"}

Positions(t, nodes) == {i \in DOMAIN obs[t].trace : obs[t].trace[i] \in nodes}

GuardrailInPlace(t) ==
    LET at == Positions(t, {"guardrail_output"}) IN
    /\ Cardinality(at) <= 1
    /\ pc[t] \in AfterGuardrail => Cardinality(at) = 1
    /\ \A k \in at :
          /\ Positions(t, AnswerNodes) # {}
          /\ \A i \in Positions(t, AnswerNodes) : i < k
          /\ \A i \in Positions(t, AfterGuardrail) : k < i

\* C18: on the reasoning path and on every early-exit path guardrail_output
\* runs exactly once, after the nodes that produce the answer and before
\* update_memory, and no later step changes assistant_text
C18_GuardrailLastGate ==
    [][\A t \in Slots :
         /\ GuardrailInPlace(t)'
         /\ (Executed(t, "guardrail_output") /\
             Executed(t, "guardrail_output")') =>
                state'[t].assistant_text = state[t].assistant_text]_vars

\* a turn of the reasoning path with a refined answer ended after its
\* memory update
C18_Witness ==
    /\ pc[1] = "END"
    /\ Executed(1, "refine_answer")
    /\ Executed(1, "update_memory")
    /\ Cardinality(Positions(1, {"guardrail_output"})) = 1

\* C19: MemoryService.chat never ends by raising; in particular a turn whose
\* call_llm raised still goes on to a response
C19_ChatAlwaysReturns ==
    \A t \in Slots :
       (Executed(t, "call_llm") /\ pc[t] \in Terminal) =>
           /\ pc[t] = "END"
           /\ Executed(t, "format_response")

-----------------------------------------------------------------------------
(* Failures inside the optional quality steps *)

NeutralSources == [grounded |-> TRUE, issues |-> << >>, confidence |-> 0]

\* C20: when the model call of an optional quality step raises, the turn goes
\* on with assistant_text unchanged: evaluate_answer updates nothing,
\* validate_sources reports grounded with no issues and confidence 0, and
\* validate_tone reports appropriate with no rewrite
C20_QualityStepsDegrade ==
    [][\A t \in Slots :
         /\ Len(obs'[t].raised) = Len(obs[t].raised) + 1 =>
               LET node == Last(obs'[t].raised) IN
               /\ pc'[t] \notin {"ABORT", node}
               /\ state'[t].assistant_text = state[t].assistant_text
               /\ node = "evaluate_answer" => state'[t] = state[t]
               /\ node = "validate_sources" =>
                     state'[t].source_validation = NeutralSources
               /\ node = "validate_tone" =>
                     state'[t].tone_validation = ToneUnchanged
         /\ pc[t] = "validate_tone" =>
               LET update == validate_tone_enabled(state[t], Throw) IN
               /\ "assistant_text" \notin DOMAIN update
               /\ update.tone_validation = ToneUnchanged]_vars

\* a turn ended in which both the evaluation and the source check raised
C20_Witness ==
    /\ pc[1] = "END"
    /\ Range(obs[1].raised) = {"evaluate_answer", "validate_sources"}

-----------------------------------------------------------------------------
(* The FAQ service: index, match and get_best_match *)

MaxK == 3

\* the embedding model, an external collaborator: it places every text on
\* one of four unit vectors, and Similarity is their inner product in
\* hundredths (1.00, 0.85, 0.70, 0.55)
Points == 1..4
Similarity(p, q) == 100 - 15 * (IF p > q THEN p - q ELSE q - p)

FaqTexts == {"a", "b", "c", "d"}

Faq(id, questions) ==
    [id |-> id, answer |-> <<"answer of", id>>, questions |-> questions]

\* contents of faq_data.json
FaqData ==
    { << >>,
      <<Faq("faq-001", <<"a", "b">>), Faq("faq-002", <<"c">>)>>,
      <<Faq("faq-001", <<"a">>), Faq("faq-002", <<"b", "c">>),
        Faq("faq-003", <<"d">>)>>,
      <<Faq("faq-001", <<"a">>), Faq("faq-002", <<"a", "b">>)>> }

RECURSIVE Flatten(_, _)
Flatten(faqs, faq_idx) ==
    IF faq_idx > Len(faqs) THEN << >>
    ELSE [j \in 1..Len(faqs[faq_idx].questions) |->
             [question |-> faqs[faq_idx].questions[j], faq_idx |-> faq_idx]]
         \o Flatten(faqs, faq_idx + 1)

\* the service after __init__: index[i] is the embedding of questions[i]
_load_and_index(faqs, embed) ==
    LET flat == Flatten(faqs, 1) IN
    [faqs |-> faqs,
     questions |-> [i \in 1..Len(flat) |-> flat[i].question],
     question_to_faq |-> [i \in 1..Len(flat) |-> flat[i].faq_idx],
     index |-> [i \in 1..Len(flat) |-> embed[flat[i].question]]]

\* index.search(query_embedding, k): the k best rows by inner product, best
\* first, equal scores in any order, padded with idx 0 when the index holds
\* fewer than k vectors
IndexSearch(index, q, k) ==
    LET n == Len(index)
        orders == {f \in [1..n -> 1..n] :
                     /\ \A i, j \in 1..n : i # j => f[i] # f[j]
                     /\ \A i \in 1..(n - 1) :
                           Similarity(index[f[i]], q)
                             >= Similarity(index[f[i + 1]], q)}
    IN {[i \in 1..k |->
           IF i <= n
           THEN [score |-> Similarity(index[f[i]], q), idx |-> f[i]]
           ELSE [score |-> NoScore, idx |-> 0]] : f \in orders}

\* the FAQ that owns every row of the index
FaqOf_first(svc, idx) == svc.faqs[1]

FaqOf(svc, idx) == svc.faqs[svc.question_to_faq[idx]]

RECURSIVE MatchFrom(_, _, _, _)
MatchFrom(svc, hits, i, seen_faqs) ==
    IF i > Len(hits) THEN << >>
    ELSE LET hit == hits[i] IN
         IF hit.idx < 1 \/ hit.idx > Len(svc.questions)
         THEN MatchFrom(svc, hits, i + 1, seen_faqs)
         ELSE LET faq == FaqOf(svc, hit.idx) IN
              IF faq.id \in seen_faqs
              THEN MatchFrom(svc, hits, i + 1, seen_faqs)
              ELSE <<[faq_id |-> faq.id,
                      matched_question |-> svc.questions[hit.idx],
                      answer |-> faq.answer,
                      score |-> hit.score,
                      sources |-> << >>]>>
                   \o MatchFrom(svc, hits, i + 1, seen_faqs \cup {faq.id})

\* match that keeps every variant the search returned
FAQService_match_all_variants(svc, encoded, hits) ==
    IF svc.questions = << >> THEN << >>
    ELSE IF ~encoded.ok THEN << >>
    ELSE LET IsRow(hit) == hit.idx >= 1 /\ hit.idx <= Len(svc.questions)
             rows == SelectSeq(hits, IsRow) IN
         [i \in 1..Len(rows) |->
            [faq_id |-> FaqOf(svc, rows[i].idx).id,
             matched_question |-> svc.questions[rows[i].idx],
             answer |-> FaqOf(svc, rows[i].idx).answer,
             score |-> rows[i].score,
             sources |-> << >>]]

\* encoded: the query embedding, or the exception of the embedding model;
\* hits: what index.search returned
FAQService_match(svc, encoded, hits) ==
    IF svc.questions = << >> THEN << >>
    ELSE IF ~encoded.ok THEN << >>
    ELSE MatchFrom(svc, hits, 1, {})

FaqProbe(faqs, embed, query, k) ==
    [fn |-> "input", svc |-> _load_and_index(faqs, embed), embed |-> embed,
     query |-> query, k |-> k, encoded |-> TRUE, matches |-> << >>,
     decision |-> "none"]

InitFaq ==
    /\ IdleTurns(0)
    /\ \E faqs \in FaqData, embed \in [FaqTexts -> Points],
          query \in FaqTexts, k \in 1..MaxK :
          probe = FaqProbe(faqs, embed, query, k)

Apply_match ==
    /\ probe.fn = "input"
    /\ \E encoded \in {Ok(probe.embed[probe.query]), Throw},
          hits \in IndexSearch(probe.svc.index, probe.embed[probe.query],
                               probe.k) :
          probe' = [probe EXCEPT
                      !.fn = "match",
                      !.encoded = encoded.ok,
                      !.matches = FAQService_match(probe.svc, encoded, hits)]
    /\ UNCHANGED <<pc, state, store, nextId, budget, state_ref,
                   captured_sources, frame, obs>>

Apply_get_best_match ==
    /\ probe.fn = "input"
    /\ \E encoded \in {Ok(probe.embed[probe.query]), Throw},
          hits \in IndexSearch(probe.svc.index, probe.embed[probe.query], 1) :
          LET matches == FAQService_match(probe.svc, encoded, hits) IN
          probe' = [probe EXCEPT
                      !.fn = "get_best_match",
                      !.encoded = encoded.ok,
                      !.matches = matches,
                      !.decision = get_best_match(matches)[2]]
    /\ UNCHANGED <<pc, state, store, nextId, budget, state_ref,
                   captured_sources, frame, obs>>

NextFaq == Apply_match \/ Apply_get_best_match

SpecFaq == InitFaq /\ [][NextFaq]_vars

\* C21: the decision of get_best_match is "exact" iff there is a best
\* candidate scoring at least 0.85, "suggest" iff it scores at least 0.70 and
\* less than 0.85, and "none" in every other case, with or without candidate
C21_DecisionByThresholds ==
    probe.fn = "get_best_match" =>
       LET found == probe.matches # << >> IN
       /\ probe.decision \in {"exact", "suggest", "none"}
       /\ probe.decision = "exact"
             <=> (found /\ probe.matches[1].score >= 85)
       /\ probe.decision = "suggest"
             <=> (found /\ probe.matches[1].score >= 70
                        /\ probe.matches[1].score < 85)

\* the best candidate scored exactly 0.70 and the decision is "suggest"
C21_Witness ==
    /\ probe.fn = "get_best_match"
    /\ probe.matches # << >>
    /\ probe.matches[1].score = 70
    /\ probe.decision = "suggest"

\* C22: match(query, k) returns at most k results, in order of non-increasing
\* score, no FAQ id twice, and the entry of each FAQ is its best-scoring
\* variant
C22_MatchBoundedSortedDistinct ==
    probe.fn = "match" =>
       LET matches == probe.matches
           svc == probe.svc
           q == probe.embed[probe.query] IN
       /\ Len(matches) <= probe.k
       /\ \A i \in 1..(Len(matches) - 1) :
             matches[i].score >= matches[i + 1].score
       /\ \A i, j \in DOMAIN matches :
             i # j => matches[i].faq_id # matches[j].faq_id
       /\ \A i \in DOMAIN matches :
             /\ \E r \in DOMAIN svc.questions :
                   /\ svc.questions[r] = matches[i].matched_question
                   /\ svc.faqs[svc.question_to_faq[r]].id = matches[i].faq_id
                   /\ Similarity(svc.index[r], q) = matches[i].score
             /\ \A r \in DOMAIN svc.questions :
                   svc.faqs[svc.question_to_faq[r]].id = matches[i].faq_id
                      => Similarity(svc.index[r], q) <= matches[i].score

\* the search returned two variants of one FAQ and a variant of another, and
\* match kept one entry for each FAQ
C22_Witness ==
    /\ probe.fn = "match"
    /\ probe.k = 3
    /\ Len(probe.svc.questions) >= 3
    /\ Len(probe.matches) = 2
    /\ probe.matches[1].score > probe.matches[2].score

\* the query is the text of a stored question variant
QueryIsStored ==
    \E r \in DOMAIN probe.svc.questions : probe.svc.questions[r] = probe.query

\* the FAQ with this id owns a variant with the text of the query
OwnsQuery(faq_id) ==
    \E r \in DOMAIN probe.svc.questions :
       /\ probe.svc.questions[r] = probe.query
       /\ probe.svc.faqs[probe.svc.question_to_faq[r]].id = faq_id

\* no variant of a FAQ that does not own the query has the query's embedding
NoForeignTwin ==
    \A r \in DOMAIN probe.svc.questions :
       probe.svc.index[r] = probe.embed[probe.query]
          => OwnsQuery(probe.svc.faqs[probe.svc.question_to_faq[r]].id)

-----------------------------------------------------------------------------
(* The FAQ early exit *)

\* C24: a turn whose message got the FAQ decision "exact" ends with
\* triage.route = "faq", triage.skip_llm = true and the FAQ's answer as
\* main_answer
C24_ExactFaqAnswersTurn ==
    \A t \in Slots :
       (pc[t] = "END" /\ "faq_match" \in DOMAIN state[t].triage) =>
          /\ state[t].response.triage.route = "faq"
          /\ state[t].response.triage.skip_llm
          /\ state[t].response.main_answer = FaqMatch(90).answer

-----------------------------------------------------------------------------
(* What the second turn of a session sees of the first *)

\* the turn in slot t follows, on the same session id and with memory on both
\* sides, a turn that opened the session and gave a non-empty answer, and it
\* has built its prompt and not yet updated the session
SecondTurnPrompted(t) ==
    LET first == obs[t].last.state IN
    /\ obs[t].last.ended
    /\ first.use_memory /\ state[t].use_memory
    /\ ~IsBlank(first.assistant_text)
    /\ first.session.message_count = 1
    /\ state[t].session_id = first.session.session_id
    /\ Executed(t, "build_prompt")
    /\ ~Executed(t, "update_memory")

SecondTurnSeesFirst(t) ==
    LET first == obs[t].last.state
        session == state[t].session
        messages == state[t].messages IN
    /\ \E i \in DOMAIN session.qa_index :
          session.qa_index[i].exchange_id = first.exchange_id
    /\ \E i \in DOMAIN messages[1].content.qa_index :
          messages[1].content.qa_index[i] = first.exchange_id
    /\ session.recent_messages
         = <<[role |-> "user", content |-> first.message],
             [role |-> "assistant", content |-> first.assistant_text]>>
    /\ Len(messages) >= 4
    /\ messages[2].type = "human" /\ messages[2].content = first.message
    /\ messages[3].type = "ai"
    /\ messages[4] = HumanMessage(state[t].message)

\* C25 as stated: the second of two sequential memory-enabled turns on a
\* session loads the first turn's Q&A entry and its pair, and its prompt
\* carries the entry and exactly 2 prior messages before the current one
C25_SecondTurnContext ==
    \A t \in Slots : SecondTurnPrompted(t) => SecondTurnSeesFirst(t)

\* C25 amended: the same, when the first turn's message was not blank
C25_SecondTurnContextNonBlank ==
    \A t \in Slots :
       (SecondTurnPrompted(t) /\ obs[t].last.state.message # MsgBlank)
          => SecondTurnSeesFirst(t)

\* a second turn that follows a turn with a non-blank message has called
\* the model with its prompt
C25_Witness ==
    /\ SecondTurnPrompted(1)
    /\ obs[1].last.state.message = MsgPlain
    /\ Executed(1, "call_llm")

-----------------------------------------------------------------------------
(* The session store on its own: save, load, exists, delete *)

StoreIds == {1, 2, 101}

QaEntry1 == FallbackEntry(7, <<"doc-1">>, MsgPlain, "het antwoord")

SessionContents ==
    { [summary |-> "", qa_index |-> << >>, recent_messages |-> << >>,
       message_count |-> 0],
      [summary |-> "summary", qa_index |-> <<QaEntry1>>,
       recent_messages |-> <<[role |-> "user", content |-> MsgPlain],
                             [role |-> "assistant",
                              content |-> "het antwoord"]>>,
       message_count |-> 1],
      [summary |-> "", qa_index |-> <<QaEntry1, QaEntry1>>,
       recent_messages |-> << >>, message_count |-> 2] }

StoreSessions ==
    {[session_id |-> sid, summary |-> c.summary, qa_index |-> c.qa_index,
      full_answers |-> << >>, recent_messages |-> c.recent_messages,
      message_count |-> c.message_count] :
        sid \in StoreIds, c \in SessionContents}

\* probe.written: the session of the last save, while no later write touched
\* the store; probe.gone: paths deleted and not saved since
StoreProbe(fn, sid, ok, session, written, gone, absent) ==
    [fn |-> fn, sid |-> sid, ok |-> ok, session |-> session,
     written |-> written, gone |-> gone, absent |-> absent]

NoWritten == [valid |-> FALSE, session |-> NewSessionMemory(0)]

InitStore ==
    /\ IdleTurns(0)
    /\ probe = StoreProbe("init", 0, FALSE, NewSessionMemory(0), NoWritten,
                          {}, TRUE)

\* saved: whether open() and json.dump succeeded
Apply_save ==
    \E session \in StoreSessions, saved \in BOOLEAN :
       /\ store' = IF saved THEN SessionStore_save(store, session) ELSE store
       /\ probe' = StoreProbe("save", session.session_id, saved,
                      NewSessionMemory(0),
                      [valid |-> saved, session |-> session],
                      IF saved THEN probe.gone \ {_path(session.session_id)}
                      ELSE probe.gone,
                      ~SessionStore_exists(store, session.session_id))
       /\ UNCHANGED <<pc, state, nextId, budget, state_ref, captured_sources,
                      frame, obs>>

Apply_load ==
    \E sid \in StoreIds :
       LET found == SessionStore_loads(store, sid) IN
       /\ probe' = StoreProbe("load", sid, found,
                      IF found THEN SessionStore_load(store, sid)
                      ELSE NewSessionMemory(0),
                      probe.written, probe.gone, ~found)
       /\ UNCHANGED <<pc, state, store, nextId, budget, state_ref,
                      captured_sources, frame, obs>>

Apply_exists ==
    \E sid \in StoreIds :
       /\ probe' = StoreProbe("exists", sid, SessionStore_exists(store, sid),
                      NewSessionMemory(0), probe.written, probe.gone,
                      _path(sid) \notin DOMAIN store)
       /\ UNCHANGED <<pc, state, store, nextId, budget, state_ref,
                      captured_sources, frame, obs>>

Apply_delete ==
    \E sid \in StoreIds, removed \in BOOLEAN :
       LET deleted == SessionStore_deleted(store, sid, removed) IN
       /\ store' = SessionStore_delete(store, sid, removed)
       /\ probe' = StoreProbe("delete", sid, deleted, NewSessionMemory(0),
                      IF deleted /\ probe.written.valid
                         /\ _path(probe.written.session.session_id)
                              = _path(sid)
                      THEN NoWritten ELSE probe.written,
                      IF deleted THEN probe.gone \cup {_path(sid)}
                      ELSE probe.gone,
                      _path(sid) \notin DOMAIN store)
       /\ UNCHANGED <<pc, state, nextId, budget, state_ref, captured_sources,
                      frame, obs>>

NextStore == Apply_save \/ Apply_load \/ Apply_exists \/ Apply_delete

SpecStore == InitStore /\ [][NextStore]_vars

C27_DeleteIdempotent ==
    /\ \A p \in probe.gone : p \notin DOMAIN store
    /\ (probe.fn \in {"delete", "exists", "load"} /\ probe.absent) =>
          ~probe.ok
    /\ (probe.fn \in {"exists", "load"} /\ _path(probe.sid) \in probe.gone) =>
          ~probe.ok
    /\ (probe.fn = "delete" /\ probe.ok) =>
          /\ _path(probe.sid) \in probe.gone
          /\ ~SessionStore_exists(store, probe.sid)

\* a second delete of an id whose record was deleted before
C27_Witness ==
    /\ probe.fn = "delete"
    /\ _path(probe.sid) \in probe.gone
    /\ probe.absent
    /\ ~probe.ok

-----------------------------------------------------------------------------
(* The refine decision on its own *)

Metrics ==
    {"relevance", "groundedness", "completeness", "tone", "policy_compliance"}

\* scores around both thresholds; NoScore is a value that is not a number
ScoreValues == {NoScore, 49, 50, 59, 60}

\* an evaluation holds any of the metrics, each with any of the values
Evaluations ==
    UNION {[present -> ScoreValues] : present \in SUBSET Metrics}

Flag(name) == {Empty} \cup {(name :> b) : b \in BOOLEAN}

NoDecision == [should_refine |-> FALSE, reasons |-> << >>]

RefineProbe(fn, evaluation, source_validation, tone_validation, decision) ==
    [fn |-> fn, evaluation |-> evaluation,
     source_validation |-> source_validation,
     tone_validation |-> tone_validation, decision |-> decision]

InitRefine ==
    /\ IdleTurns(0)
    /\ \E evaluation \in Evaluations, source_validation \in Flag("grounded"),
          tone_validation \in Flag("appropriate") :
          probe = RefineProbe("none", evaluation, source_validation,
                              tone_validation, NoDecision)

Apply_decide_refine ==
    /\ probe.fn = "none"
    /\ probe' = RefineProbe("decide_refine", probe.evaluation,
                    probe.source_validation, probe.tone_validation,
                    decide_refine(probe.evaluation, probe.source_validation,
                                  probe.tone_validation))
    /\ UNCHANGED <<pc, state, store, nextId, budget, state_ref,
                   captured_sources, frame, obs>>

NextRefine == Apply_decide_refine

SpecRefine == InitRefine /\ [][NextRefine]_vars

\* the deficits of the inputs: a number below the metric's threshold, a
\* grounded flag that is false, an appropriate flag that is false
ScoreDeficit(metric, threshold) ==
    /\ metric \in DOMAIN probe.evaluation
    /\ probe.evaluation[metric] # NoScore
    /\ probe.evaluation[metric] < threshold

FlagDeficit(validation, name) ==
    /\ name \in DOMAIN validation
    /\ ~validation[name]

HasDeficit ==
    \/ ScoreDeficit("relevance", 60)
    \/ ScoreDeficit("groundedness", 60)
    \/ ScoreDeficit("completeness", 50)
    \/ ScoreDeficit("tone", 60)
    \/ ScoreDeficit("policy_compliance", 60)
    \/ FlagDeficit(probe.source_validation, "grounded")
    \/ FlagDeficit(probe.tone_validation, "appropriate")

\* C28: decide_refine answers should_refine exactly when there is a deficit:
\* a numeric score strictly below its threshold (0.6, 0.6, 0.5, 0.6, 0.6 for
\* relevance, groundedness, completeness, tone, policy_compliance), grounded
\* = false or appropriate = false; a missing or non-numeric score and a score
\* at its threshold are no deficit
C28_RefineIffDeficit ==
    probe.fn = "decide_refine" =>
       (probe.decision.should_refine <=> HasDeficit)

\* every score at its threshold, missing or not a number, and yet a refine
\* because the source validation says not grounded
C28_Witness ==
    /\ probe.fn = "decide_refine"
    /\ probe.decision.should_refine
    /\ ~FlagDeficit(probe.tone_validation, "appropriate")
    /\ DOMAIN probe.evaluation = Metrics \ {"tone"}
    /\ probe.evaluation["relevance"] = 60
    /\ probe.evaluation["groundedness"] = 60
    /\ probe.evaluation["completeness"] = 50
    /\ probe.evaluation["policy_compliance"] = NoScore

-----------------------------------------------------------------------------
(* bundle_sources on its own *)

MaxSources == 4

SourceLists ==
    UNION {[1..n -> {Doc1, Doc1b, Doc2, DocNoId}] : n \in 0..MaxSources}

BundleProbe(fn, sources, unique_sources, source_ids) ==
    [fn |-> fn, sources |-> sources, unique_sources |-> unique_sources,
     source_ids |-> source_ids]

InitBundle ==
    /\ IdleTurns(0)
    /\ \E sources \in SourceLists :
          probe = BundleProbe("none", sources, << >>, << >>)

Apply_bundle_sources ==
    /\ probe.fn = "none"
    /\ LET s == [IdleState EXCEPT !.retrieved_sources = probe.sources]
           update == bundle_sources(s, 1) IN
       probe' = BundleProbe("bundle_sources", probe.sources,
                            update.unique_sources, update.source_ids)
    /\ UNCHANGED <<pc, state, store, nextId, budget, state_ref,
                   captured_sources, frame, obs>>

NextBundle == Apply_bundle_sources

SpecBundle == InitBundle /\ [][NextBundle]_vars

\* the n-th smallest member of a set of positions
Nth(positions, n) ==
    CHOOSE j \in positions : Cardinality({k \in positions : k < j}) = n - 1

\* the positions of the input that are to be kept: every entry without a
\* document id, and the first entry of every document id
KeptPositions ==
    {j \in 1..Len(probe.sources) :
        \/ probe.sources[j].document_id = ""
        \/ \A k \in 1..(j - 1) :
              probe.sources[k].document_id # probe.sources[j].document_id}

IdentifiedPositions ==
    {i \in 1..Len(probe.unique_sources) :
        probe.unique_sources[i].document_id # ""}

\* C29: bundle_sources keeps exactly the first entry of every non-empty
\* document id and every entry without one, in the order of the input, and
\* source_ids lists the non-empty ids of the kept entries in that order,
\* each once
C29_BundleSourcesDedup ==
    probe.fn = "bundle_sources" =>
       /\ Len(probe.unique_sources) = Cardinality(KeptPositions)
       /\ \A i \in 1..Len(probe.unique_sources) :
             probe.unique_sources[i] = probe.sources[Nth(KeptPositions, i)]
       /\ Len(probe.source_ids) = Cardinality(IdentifiedPositions)
       /\ \A n \in 1..Len(probe.source_ids) :
             probe.source_ids[n]
               = probe.unique_sources[Nth(IdentifiedPositions, n)].document_id
       /\ \A m, n \in 1..Len(probe.source_ids) :
             probe.source_ids[m] = probe.source_ids[n] => m = n

\* two chunks of one document and two sources without an id went in
C29_Witness ==
    /\ probe.fn = "bundle_sources"
    /\ probe.sources = <<Doc1, DocNoId, Doc1b, DocNoId>>
    /\ probe.unique_sources = <<Doc1, DocNoId, DocNoId>>
    /\ probe.source_ids = <<"d1">>

-----------------------------------------------------------------------------
(* Many answered turns on one session *)

NextIndex ==
    \E t \in {1} :
      \/ \E session_id \in KnownSessionIds :
            chat(t, MsgPlain, session_id, TRUE)
      \/ Run_load_session(t)
      \/ Run_guardrail_input(t)
      \/ Run_triage_relevance(t)
      \/ Run_triage_faq(t, {TRUE}, {<< >>})
      \/ Run_triage_mcp(t, {"NEE"})
      \/ Run_triage_intent(t)
      \/ Run_build_prompt(t)
      \/ Run_call_llm(t, {TextReply})
      \/ Run_bundle_sources(t)
      \/ Run_evaluate_answer(t, {Ok(GoodScores)})
      \/ Run_quality_gate(t)
      \/ Run_validate_sources(t, {Ok(TRUE)})
      \/ Run_validate_tone(t, {Ok(TRUE)})
      \/ Run_guardrail_output(t)
      \/ Run_update_memory(t, {Ok(QaData), Throw}, {Ok("summary")})
      \/ Run_save_session(t)
      \/ Run_format_response(t)

InitIndex == InitWith(MaxIndexTurns)

SpecIndex == InitIndex /\ [][NextIndex]_vars

\* a candidate for the maximum: one less than the turns that are processed
QaIndexMaximum == MaxIndexTurns - 1

\* C30: the Q&A index of a session never grows beyond a fixed maximum,
\* however many turns with memory are processed on the session
C30_QaIndexBounded ==
    \A session \in Sessions : Len(session.qa_index) <= QaIndexMaximum

-----------------------------------------------------------------------------
(* The FAQ service over its life: __init__ and reload *)

\* the vector index: None, or an index holding vectors
NoIndex == [built |-> FALSE, vectors |-> << >>]

\* the fields __init__ sets before it loads
NewFAQService ==
    [faqs |-> << >>, questions |-> << >>, question_to_faq |-> << >>,
     index |-> NoIndex]

\* what a load meets: no data file, a file that cannot be read or parsed, or
\* the FAQs of the file together with whether the embedding model answers
LoadOutcomes ==
    {[kind |-> "missing", faqs |-> << >>, encoded |-> FALSE],
     [kind |-> "unreadable", faqs |-> << >>, encoded |-> FALSE]}
       \cup {[kind |-> "data", faqs |-> faqs, encoded |-> encoded] :
               faqs \in FaqData, encoded \in BOOLEAN}

ReloadEmbeds == {[text \in FaqTexts |-> p] : p \in 1..3}

\* _load_and_index on a service that may have loaded before; the except
\* clause resets faqs, questions and index
FAQService_reload(svc, load, embed) ==
    IF load.kind = "missing" THEN svc
    ELSE IF load.kind = "unreadable"
    THEN [svc EXCEPT !.faqs = << >>, !.questions = << >>, !.index = NoIndex]
    ELSE LET flat == _load_and_index(load.faqs, embed) IN
         IF flat.questions = << >>
         THEN [svc EXCEPT !.faqs = load.faqs, !.questions = << >>,
                          !.question_to_faq = << >>]
         ELSE IF ~load.encoded
         THEN [faqs |-> << >>, questions |-> << >>,
               question_to_faq |-> flat.question_to_faq, index |-> NoIndex]
         ELSE [faqs |-> flat.faqs, questions |-> flat.questions,
               question_to_faq |-> flat.question_to_faq,
               index |-> [built |-> TRUE, vectors |-> flat.index]]

InitReload ==
    /\ IdleTurns(0)
    /\ probe = [fn |-> "new", svc |-> NewFAQService, loads |-> 0,
                load |-> "none"]

Apply_load_and_index ==
    /\ probe.loads < MaxReloads
    /\ \E load \in LoadOutcomes, embed \in ReloadEmbeds :
          probe' = [fn |-> "_load_and_index",
                    svc |-> FAQService_reload(probe.svc, load, embed),
                    loads |-> probe.loads + 1,
                    load |-> IF load.kind = "data" /\ ~load.encoded
                             THEN "failed" ELSE load.kind]
    /\ UNCHANGED <<pc, state, store, nextId, budget, state_ref,
                   captured_sources, frame, obs>>

NextReload == Apply_load_and_index

SpecReload == InitReload /\ [][NextReload]_vars

\* C31: after every load or reload, however it ended, questions and
\* question_to_faq have equal length, every entry of question_to_faq is a
\* position of faqs, and an index that is not None holds one vector for
\* every entry of questions
C31_IndexConsistent ==
    probe.fn = "_load_and_index" =>
       LET svc == probe.svc IN
       /\ Len(svc.questions) = Len(svc.question_to_faq)
       /\ \A i \in DOMAIN svc.question_to_faq :
             svc.question_to_faq[i] \in 1..Len(svc.faqs)
       /\ svc.index.built =>
             Len(svc.index.vectors) = Len(svc.questions)

-----------------------------------------------------------------------------
(* The reasoning loop and its tool rounds *)

\* the responses of the model in the turn of slot t: the assistant messages
\* that follow the turn's own message, the last one build_prompt put there
ModelResponses(t) ==
    LET msgs == state[t].messages
        own == CHOOSE i \in DOMAIN msgs :
                  /\ msgs[i].type = "human"
                  /\ \A j \in DOMAIN msgs : j > i => msgs[j].type # "human"
    IN SelectSeq(SubSeq(msgs, own + 1, Len(msgs)),
                 LAMBDA msg : msg.type = "ai")

ToolRounds(t) == Count(obs[t].trace, "execute_tools")

\* C32: when the loop is left, tool_rounds is the number of tool rounds that
\* were executed, and a model that asked for tools in every response got
\* exactly 3 tool rounds
C32_CounterCountsToolRounds ==
    \A t \in Slots :
       pc[t] = "bundle_sources" =>
          /\ state[t].tool_rounds = ToolRounds(t)
          /\ (\A i \in DOMAIN ModelResponses(t) :
                 ModelResponses(t)[i].tool_calls # << >>)
                => ToolRounds(t) = MAX_TOOL_ROUNDS

-----------------------------------------------------------------------------
(* triage_faq on its own *)

\* the turn record as triage_faq finds it: after load_session,
\* guardrail_input and triage_relevance
BeforeTriageFaq(message, use_memory) ==
    LET s0 == InitialState(message, 0, use_memory)
        s1 == Merge(s0, load_session(s0, << >>, 1))
        s2 == Merge(s1, guardrail_input(s1)) IN
    Merge(s2, triage_relevance(s2))

\* best candidates scoring around both thresholds
FaqScores == {60, 69, 70, 75, 84, 85, 90}

BestCandidates == {<< >>} \cup {<<FaqMatch(score)>> : score \in FaqScores}

InitTriageFaq ==
    /\ IdleTurns(0)
    /\ \E message \in Messages, use_memory \in BOOLEAN,
          faq_service \in BOOLEAN, matches \in BestCandidates :
          probe = [fn |-> "none",
                   s |-> BeforeTriageFaq(message, use_memory),
                   faq_service |-> faq_service, matches |-> matches,
                   after |-> BeforeTriageFaq(message, use_memory)]

Apply_triage_faq ==
    /\ probe.fn = "none"
    /\ probe' = [probe EXCEPT
                   !.fn = "triage_faq",
                   !.after = Merge(probe.s,
                                   triage_faq(probe.s, probe.faq_service,
                                              probe.matches))]
    /\ UNCHANGED <<pc, state, store, nextId, budget, state_ref,
                   captured_sources, frame, obs>>

NextTriageFaq == Apply_triage_faq

SpecTriageFaq == InitTriageFaq /\ [][NextTriageFaq]_vars

\* what get_best_match decided, "no service" when there is none
FaqDecision ==
    IF probe.faq_service THEN get_best_match(probe.matches)[2]
    ELSE "no service"

\* the triage after the node is the triage before it with one more log
\* entry and, possibly, the keys named
TriageKeepsExcept(keys) ==
    LET before == probe.s.triage
        after == probe.after.triage IN
    /\ DOMAIN before \subseteq DOMAIN after
    /\ DOMAIN after \subseteq DOMAIN before \cup keys
    /\ \A k \in DOMAIN before \ (keys \cup {"triage_log"}) :
          after[k] = before[k]
    /\ Len(after.triage_log) = Len(before.triage_log) + 1
    /\ SubSeq(after.triage_log, 1, Len(before.triage_log))
         = before.triage_log

\* C33: on "exact" triage_faq sets route = faq, skip_llm, early_response and
\* the sources of the FAQ; on "suggest" it adds faq_suggestion and a log
\* entry and leaves route, skip_llm and early_response as they were; on
\* "none" or without a FAQ service it only appends a log entry
C33_ShortCircuitOnlyOnExact ==
    probe.fn = "triage_faq" =>
       LET before == probe.s.triage
           after == probe.after.triage IN
       /\ FaqDecision = "exact" =>
             /\ after.route = "faq"
             /\ after.skip_llm
             /\ after.early_response = probe.matches[1].answer
             /\ after.faq_sources = probe.matches[1].sources
       /\ FaqDecision = "suggest" =>
             /\ TriageKeepsExcept({"faq_suggestion"})
             /\ after.route = before.route
             /\ after.skip_llm = before.skip_llm
             /\ after.early_response = before.early_response
             /\ after.faq_suggestion.faq_id = probe.matches[1].faq_id
             /\ after.faq_suggestion.answer = probe.matches[1].answer
       /\ FaqDecision \in {"none", "no service"} => TriageKeepsExcept({})
       /\ after.skip_llm => FaqDecision = "exact"

\* a candidate scoring 0.84 was attached as a suggestion
C33_Witness ==
    /\ probe.fn = "triage_faq"
    /\ probe.faq_service
    /\ probe.matches = <<FaqMatch(84)>>
    /\ "faq_suggestion" \in DOMAIN probe.after.triage
    /\ ~probe.after.triage.skip_llm

-----------------------------------------------------------------------------
(* Turns on one session whose reasoning loop may end without a text *)

ToolsOnlyReply == Ok(AIMessage("", <<SearchCall>>))
BlankReply == Ok(AIMessage(" ", << >>))

NextAnswer ==
    \E t \in {1} :
      \/ \E session_id \in KnownSessionIds :
            chat(t, MsgPlain, session_id, TRUE)
      \/ Run_load_session(t)
      \/ Run_guardrail_input(t)
      \/ Run_triage_relevance(t)
      \/ Run_triage_faq(t, {TRUE}, {<< >>})
      \/ Run_triage_mcp(t, {"NEE"})
      \/ Run_triage_intent(t)
      \/ Run_build_prompt(t)
      \/ Run_call_llm(t, {TextReply, ToolsOnlyReply, BlankReply})
      \/ execute_tools_clear(t)
      \/ execute_tools_invoke(t, {<<Doc1>>})
      \/ execute_tools_drain(t)
      \/ Run_bundle_sources(t)
      \/ Run_evaluate_answer(t, {Ok(GoodScores)})
      \/ Run_quality_gate(t)
      \/ Run_validate_sources(t, {Ok(TRUE)})
      \/ Run_validate_tone(t, {Ok(TRUE)})
      \/ Run_guardrail_output(t)
      \/ Run_update_memory(t, {Ok(QaData)}, {Ok("summary")})
      \/ Run_save_session(t)
      \/ Run_format_response(t)

InitAnswer == InitWith(MaxAnswerTurns)

SpecAnswer == InitAnswer /\ [][NextAnswer]_vars

JustBundled(t) ==
    obs[t].trace # << >> /\ Last(obs[t].trace) = "bundle_sources"

\* C34: after bundle_sources the draft answer is the content of the last
\* assistant message with non-blank text, and the fallback text when there
\* is none, as when every response of the model held tool calls only; it is
\* never blank
C34_DraftIsLastTextOrFallback ==
    \A t \in Slots :
       JustBundled(t) =>
          LET found == LastAnswerText(state[t].messages) IN
          /\ ~IsBlank(state[t].assistant_text)
          /\ state[t].assistant_text
               = (IF found = "" THEN FALLBACK_TEXT ELSE found)
          /\ (\A i \in DOMAIN ModelResponses(t) :
                 IsBlank(ModelResponses(t)[i].content))
                => state[t].assistant_text = FALLBACK_TEXT

\* C35: in a turn that runs alone, once the reasoning loop is left
\* retrieved_sources is what the tool calls of the turn captured, round after
\* round and in order, each captured source once; outside a round of
\* execute_tools the shared accumulator is empty
C35_SourcesAreWhatToolsCaptured ==
    /\ (pc[1] # "execute_tools" \/ frame[1].phase # "run") =>
          captured_sources = << >>
    /\ (Executed(1, "build_prompt")
        /\ pc[1] \notin {"call_llm", "execute_tools"}) =>
          state[1].retrieved_sources = obs[1].captured

\* two rounds of tools, each with a search that found documents
C35_Witness ==
    /\ pc[1] = "bundle_sources"
    /\ ToolRounds(1) = 2
    /\ obs[1].captured = <<Doc1, Doc2, Doc1b, DocNoId>>
    /\ state[1].retrieved_sources = <<Doc1, Doc2, Doc1b, DocNoId>>

\* a round of execute_tools has just ended in slot t
RoundDone(t) ==
    /\ obs[t].trace # << >>
    /\ Last(obs[t].trace) = "execute_tools"
    /\ pc[t] = "call_llm"

\* the tool calls of the round that has just ended
RequestedCalls(t) ==
    LET msgs == state[t].messages
        asked == CHOOSE i \in DOMAIN msgs :
                    /\ msgs[i].type = "ai"
                    /\ \A j \in DOMAIN msgs : j > i => msgs[j].type # "ai"
    IN msgs[asked].tool_calls

KnownTools ==
    {"search_knowledge_base", "retrieve_past_answer",
     "lookup_past_conversation"}

\* C36: a round of execute_tools appends one tool message for every call of
\* the model's latest response, in the order of the calls and with the id of
\* its call; a call of an unknown tool and a call that raised have an error
\* text as their result and the calls after them are answered as well
C36_OneResultPerCall ==
    \A t \in Slots :
       RoundDone(t) =>
          LET msgs == state[t].messages
              calls == RequestedCalls(t)
              n == Len(calls)
              result(i) == msgs[Len(msgs) - n + i] IN
          /\ n > 0
          /\ Len(msgs) > n
          /\ msgs[Len(msgs) - n].type = "ai"
          /\ msgs[Len(msgs) - n].tool_calls = calls
          /\ Len(frame[t].raised) = n
          /\ \A i \in 1..n :
                /\ result(i).type = "tool"
                /\ result(i).tool_call_id = calls[i].id
                /\ calls[i].name \notin KnownTools =>
                      result(i).content = "Unknown tool"
                /\ frame[t].raised[i] =>
                      result(i).content
                        = "Error executing search_knowledge_base"

\* the model asked for a known and an unknown tool, and both were answered
C36_Witness ==
    /\ RoundDone(1)
    /\ RequestedCalls(1) = <<LookupCall, UnknownCall>>
    /\ Last(state[1].messages).tool_call_id = UnknownCall.id
    /\ Last(state[1].messages).content = "Unknown tool"
    /\ state[1].messages[Len(state[1].messages) - 1].tool_call_id
         = LookupCall.id

-----------------------------------------------------------------------------
(* load_session against the session files it may find *)

StoredSession ==
    [NewSessionMemory(11) EXCEPT
        !.summary = "summary", !.qa_index = <<QaEntry1>>,
        !.message_count = 1]

\* the sessions directory when the turn starts
StoresOnDisk ==
    {<< >>,
     (11 :> StoredSession),
     (11 :> Corrupt),
     (11 :> StoredSession) @@ (12 :> Corrupt)}

\* no id, a stored id, the same id with a directory part, other ids
RequestedIds == {0, 11, 111, 12, 13}

InitLoad ==
    /\ pc = [t \in Slots |-> "idle"]
    /\ state = [t \in Slots |-> IdleState]
    /\ store \in StoresOnDisk
    /\ nextId = 1
    /\ budget = 1
    /\ state_ref = Empty
    /\ captured_sources = << >>
    /\ frame = [t \in Slots |-> NewFrame]
    /\ obs = [t \in Slots |-> NewObs]
    /\ probe = NoProbe

NextLoad ==
    \E t \in {1} :
      \/ \E message \in {MsgPlain, MsgBlank}, session_id \in RequestedIds,
            use_memory \in BOOLEAN :
            chat(t, message, session_id, use_memory)
      \/ Run_load_session(t)

SpecLoad == InitLoad /\ [][NextLoad]_vars

\* C37: load_session always yields a session; it is the stored session of
\* the requested id when memory is enabled, the id is not empty and its
\* record exists and parses, and in every other case a new, empty session
\* under a fresh id that is not the requested id
C37_LoadSessionYieldsSession ==
    \A t \in Slots :
       (obs[t].trace = <<"load_session">>) =>
          LET sid == state[t].session_id
              before == obs[t].store0
              session == state[t].session
              stored == /\ state[t].use_memory
                        /\ sid # 0
                        /\ _path(sid) \in DOMAIN before
                        /\ before[_path(sid)] # Corrupt IN
          /\ pc[t] = "guardrail_input"
          /\ DOMAIN session = SessionMemoryFields
          /\ stored => session = before[_path(sid)]
          /\ ~stored =>
                /\ session = NewSessionMemory(session.session_id)
                /\ session.session_id # sid
                /\ _path(session.session_id) \notin DOMAIN before

\* the record of the requested id did not parse and a new session was made
C37_Witness ==
    /\ obs[1].trace = <<"load_session">>
    /\ state[1].use_memory
    /\ state[1].session_id = 12
    /\ 12 \in DOMAIN obs[1].store0
    /\ state[1].session = NewSessionMemory(1)

-----------------------------------------------------------------------------
(* Sequential turns with memory that end in every way a turn can end *)

NextCount ==
    \E t \in {1} :
      \/ \E message \in {MsgPlain, MsgMcpList},
            session_id \in KnownSessionIds :
            chat(t, message, session_id, TRUE)
      \/ Run_load_session(t)
      \/ Run_guardrail_input(t)
      \/ Run_triage_relevance(t)
      \/ Run_triage_faq(t, {TRUE}, {<< >>, <<FaqMatch(90)>>})
      \/ Run_triage_mcp(t, {"NEE"})
      \/ Run_triage_intent(t)
      \/ Run_bundle_triage_response(t)
      \/ Run_call_mcp(t, {"ok"})
      \/ Run_format_mcp(t, {Ok(""), Ok("formatted answer")})
      \/ Run_build_prompt(t)
      \/ Run_call_llm(t, {TextReply})
      \/ Run_bundle_sources(t)
      \/ Run_evaluate_answer(t, {Ok(GoodScores)})
      \/ Run_quality_gate(t)
      \/ Run_validate_sources(t, {Ok(TRUE)})
      \/ Run_validate_tone(t, {Ok(TRUE)})
      \/ Run_guardrail_output(t)
      \/ Run_update_memory(t, QaOutcomes, {Ok("summary")})
      \/ Run_save_session(t)
      \/ Run_format_response(t)

InitCount == InitWith(MaxCountTurns)

SpecCount == InitCount /\ [][NextCount]_vars

Archived(session) == Cardinality(DOMAIN session.full_answers)

\* C38: on a session that only sequential turns with memory have changed,
\* message_count, the length of qa_index and the number of archived answers
\* are equal after every turn, and a turn adds one to each, also when its
\* answer is blank or came from a triage early exit
C38_CountsAgree ==
    /\ \A sid \in DOMAIN store :
          /\ store[sid].message_count = Len(store[sid].qa_index)
          /\ store[sid].message_count = Archived(store[sid])
    /\ \A t \in Slots :
          pc[t] = "END" =>
             LET sid == state[t].session.session_id
                 before == IF sid \in DOMAIN obs[t].store0
                           THEN obs[t].store0[sid]
                           ELSE NewSessionMemory(sid) IN
             /\ sid \in DOMAIN store
             /\ store[sid].message_count = before.message_count + 1
             /\ Len(store[sid].qa_index) = Len(before.qa_index) + 1
             /\ Archived(store[sid]) = Archived(before) + 1

\* three turns on one session: a blank answer and a FAQ answer among them
C38_Witness ==
    \E sid \in DOMAIN store :
       /\ pc[1] = "END"
       /\ store[sid].message_count = MaxCountTurns
       /\ \E x, y \in DOMAIN store[sid].full_answers :
             /\ IsBlank(store[sid].full_answers[x].text)
             /\ store[sid].full_answers[y].text = FaqMatch(90).answer

\* C39: after a turn with memory the text archived under the turn's
\* exchange id is response.main_answer; when that text is not blank it is
\* also the content of the last entry of recent_messages, and the entry
\* before it is the user's message of the turn
C39_ArchiveHoldsFinalAnswer ==
    \A t \in Slots :
       (pc[t] = "END" /\ state[t].use_memory) =>
          LET sid == state[t].session.session_id
              answer == state[t].response.main_answer IN
          /\ sid \in DOMAIN store
          /\ state[t].exchange_id \in DOMAIN store[sid].full_answers
          /\ store[sid].full_answers[state[t].exchange_id].text = answer
          /\ ~IsBlank(answer) =>
                LET recent == store[sid].recent_messages
                    n == Len(recent) IN
                /\ n >= 2
                /\ recent[n] = [role |-> "assistant", content |-> answer]
                /\ recent[n - 1]
                     = [role |-> "user", content |-> state[t].message]

\* a turn with memory whose draft was refined has ended
C39_Witness ==
    /\ pc[1] = "END"
    /\ state[1].use_memory
    /\ obs[1].refine_outcome = "text"
    /\ state[1].response.main_answer # LastAnswerText(state[1].messages)
    /\ ~IsBlank(state[1].response.main_answer)

-----------------------------------------------------------------------------
(* A session deleted while turns use it *)

\* turns with memory on the sessions there are, and the delete endpoint
\* called at any moment
NextDelete ==
    \/ Apply_delete
    \/ \E t \in {1} :
         \/ \E session_id \in KnownSessionIds :
               chat(t, MsgPlain, session_id, TRUE)
         \/ Run_load_session(t)
         \/ Run_guardrail_input(t)
         \/ Run_triage_relevance(t)
         \/ Run_triage_faq(t, {TRUE}, {<< >>})
         \/ Run_triage_mcp(t, {"NEE"})
         \/ Run_triage_intent(t)
         \/ Run_build_prompt(t)
         \/ Run_call_llm(t, {TextReply})
         \/ Run_bundle_sources(t)
         \/ Run_evaluate_answer(t, {Ok(GoodScores)})
         \/ Run_quality_gate(t)
         \/ Run_validate_sources(t, {Ok(TRUE)})
         \/ Run_validate_tone(t, {Ok(TRUE)})
         \/ Run_guardrail_output(t)
         \/ Run_update_memory(t, {Ok(QaData)}, {Ok("summary")})
         \/ Run_save_session(t)
         \/ Run_format_response(t)

InitDelete ==
    /\ IdleTurns(MaxDeleteTurns)
    /\ probe = StoreProbe("init", 0, FALSE, NewSessionMemory(0), NoWritten,
                          {}, TRUE)

SpecDelete == InitDelete /\ [][NextDelete]_vars

\* C40: the record of an id whose delete returned true never reappears,
\* also when a turn that loaded the session before the delete reaches
\* save_session afterwards
C40_DeletedStaysDeleted ==
    \A p \in probe.gone : p \notin DOMAIN store

====
